---- MODULE Spec2Model ----
(***************************************************************************)
(* Certificate e-mail delivery of supabase/functions/send-certificate-     *)
(* email/index.ts (SimpleSMTPClient, sendEmailInBackground, handler), and  *)
(* of the page that sends a batch of certificates through that function    *)
(* (sendCertificates of unnamed/part_001), the endpoint that validates    *)
(* a certificate without sending it (validatePdfBase64 of                  *)
(* unnamed/part_005), the chunked write of a message (sendEmailContent of  *)
(* unnamed/part_007) and the webhook that records registrations            *)
(* (supabase/functions/participant-webhook/index.ts).                      *)
(*                                                                         *)
(* Strings are sequences of tokens.  A token is one character ("A", "=",   *)
(* "\r", ...) wherever the code inspects or transforms characters, and a   *)
(* literal of the program text ("MIME-Version: 1.0") where the code only   *)
(* copies it.  The mail server and the transport are the environment: a    *)
(* scripted peer whose replies are chosen when the connection is opened.   *)
(***************************************************************************)
EXTENDS Naturals, Integers, Sequences, FiniteSets

VARIABLES
    request,      \* the HTTP request: method, body parse result, body fields
    smtpPassword, \* Deno.env.get('SMTP_PASSWORD'); <<>> when not configured
    response,     \* the handler's Response, NoResponse until it returns
    pc,           \* position of the background job / SMTP client
    attempt,      \* sendEmailInBackground: let attempt
    outcome,      \* how the background job ended ("none" while it runs)
    conn,         \* SimpleSMTPClient.conn: 0 is null, else the connection id
    opened,       \* number of TLS connections opened so far (ids 1..opened)
    closedConns,  \* ids of the connections on which close() was called
    peer,         \* the mail server behind the current connection (see Peers)
    wire,         \* writes made on the current connection, in order
    replies,      \* responses readResponse returned on the current connection
    results,      \* "ok" / "error" of each finished attempt (try block), in order
    lastError,    \* the Error the current attempt threw ("none" until it throws)
    quitFailed,   \* the current attempt's disconnect() caught a failure of its QUIT
    raised,       \* an exception escaped the current attempt's disconnect()
    sleeps,       \* setTimeout delays (ms) awaited by the job, in order
    accepted,     \* number of messages the server accepted (final 250)
    logged,       \* console.log lines of the current connection that carry data
    certificates, \* sendCertificates: the certificates fetched with status 'issued'
    idx,          \* sendCertificates: the loop variable i, counted from 1
    ui,           \* position of sendCertificates
    dbStatus,     \* status column of each fetched certificate
    inflight,     \* certificates whose send request has not reached the function yet
    responses,    \* what functions.invoke returned for each certificate
    jobs,         \* the delivery job the function started for each certificate
    toast,        \* the toast sendCertificates showed last
    events,       \* requests made and first delivery attempts started, in order
    incoming,     \* readResponse: what the server still sends on the connection
    received,     \* readResponse: let response, the text accumulated so far
    attempts,     \* readResponse: let attempts
    rd,           \* position of readResponse
    testRequest,  \* the request the validation test endpoint is serving
    validation,   \* test endpoint: const validation = validatePdfBase64(...)
    testResponse, \* the Response the test endpoint returned
    content,      \* sendEmailContent: the message text to write (a sequence of runs)
    sliceStart,   \* sendEmailContent: the loop variable i
    written,      \* what each conn.write call of sendEmailContent wrote, in order
    sending,      \* position of sendEmailContent
    registrations,\* the rows of table webhook_registrations
    hookCalls     \* participant-webhook: the invocations being served and their positions

\* one send-certificate-email invocation
jobVars == << request, smtpPassword, response, pc, attempt, outcome, conn, opened,
              closedConns, peer, wire, replies, results, lastError, quitFailed,
              raised, sleeps, accepted, logged >>

\* the page that sends a batch, with the invocations it makes
batchVars == << certificates, idx, ui, dbStatus, inflight, responses, jobs, toast,
                events >>

\* one readResponse call, read by read
readVars == << incoming, received, attempts, rd >>
testVars == << testRequest, validation, testResponse >>
\* one sendEmailContent call, write by write
chunkVars == << content, sliceStart, written, sending >>
\* the webhook function and its table
hookVars == << registrations, hookCalls >>

vars == << request, smtpPassword, response, pc, attempt, outcome, conn, opened,
           closedConns, peer, wire, replies, results, lastError, quitFailed,
           raised, sleeps, accepted, logged, certificates, idx, ui, dbStatus,
           inflight, responses, jobs, toast, events, incoming, received, attempts,
           rd, testRequest, validation, testResponse,
           content, sliceStart, written, sending,
           registrations, hookCalls >>

----------------------------------------------------------------------------
(* Program constants *)

\* index.ts:331, 471  (pdfBase64.length < 100)
MinBase64Len == 100
\* index.ts:347  (decodedSize < 1000)
MinDecodedSize == 1000
\* index.ts:179  (/.{1,76}/g)
LineLen == 76
\* index.ts:225  (/(.{75})/g)
QPLineLen == 75
\* index.ts:377
maxAttempts == 3
\* index.ts:409
RetryDelayMs == 2000

(* Bounds of the model *)

\* replies of one connection that differ from the expected dialogue
MaxDeviations == 1
\* '=' characters at the end of a generated payload
MaxPad == 2
\* calls made on a SimpleSMTPClient that is driven on its own
MaxCalls == 4
\* certificates of the largest batch
MaxBatch == 3
\* distinct outcomes of the two Math.random() calls of one buildMimeMessage call
MaxRand == 2

----------------------------------------------------------------------------
(* Strings *)

CR == "\r"
LF == "\n"
CRLF == << CR, LF >>

Upper == {"A", "B", "C", "D", "E", "J", "M", "R", "V", "Z"}
Lower == {"a", "b", "c", "d", "e", "i", "n", "o", "x", "z"}
Digit == {"0", "1", "2", "3", "4", "5", "6", "7", "8", "9"}
\* [A-Za-z0-9+/]
Base64Alphabet == Upper \cup Lower \cup Digit \cup {"+", "/"}
\* \s
Whitespace == {" ", "\t", LF, CR}
\* [\u0080-\uFFFF]: one representative, U+00E9, with character code 0xE9
NonAscii == {"U+00E9"}

Max(a, b) == IF a >= b THEN a ELSE b
Min(a, b) == IF a <= b THEN a ELSE b

\* String.prototype.startsWith
StartsWith(s, p) == Len(s) >= Len(p) /\ SubSeq(s, 1, Len(p)) = p

\* The concatenation of the strings ps[lo..hi], by halves (the depth of the
\* evaluation stays logarithmic in the number of pieces)
RECURSIVE FlattenRange(_, _, _)
FlattenRange(ps, lo, hi) ==
    IF lo > hi THEN << >>
    ELSE IF lo = hi THEN ps[lo]
    ELSE FlattenRange(ps, lo, (lo + hi) \div 2) \o FlattenRange(ps, ((lo + hi) \div 2) + 1, hi)

Flatten(ps) == FlattenRange(ps, 1, Len(ps))

\* Array.prototype.join
Join(parts, sep) ==
    Flatten([i \in 1..(2 * Len(parts) - 1) |->
                IF i % 2 = 1 THEN parts[(i + 1) \div 2] ELSE sep])

\* String.prototype.trim
Trim(s) ==
    LET n == Len(s)
        blank(i) == s[i] \in Whitespace
    IN  IF \A i \in 1..n : blank(i) THEN << >>
        ELSE SubSeq(s, CHOOSE i \in 1..n : ~blank(i) /\ \A j \in 1..(i - 1) : blank(j),
                       CHOOSE i \in 1..n : ~blank(i) /\ \A j \in (i + 1)..n : blank(j))

\* s.replace(/[\r\n\t]/g, '')
IsNotBreak(c) == c \notin {CR, LF, "\t"}
StripBreaks(s) == SelectSeq(s, IsNotBreak)

\* /^[A-Za-z0-9+/]+=*$/.test(s)
IsBase64Shape(s) ==
    /\ Len(s) >= 1
    /\ s[1] \in Base64Alphabet
    /\ \A i \in 1..Len(s) :
          s[i] \notin Base64Alphabet =>
              /\ s[i] = "="
              /\ (i = Len(s) \/ s[i + 1] \notin Base64Alphabet)

\* s.split(',')  (positions of the commas, then the pieces between them)
CommaAt(s) == {i \in 1..Len(s) : s[i] = ","}
SplitComma(s) ==
    LET cuts == CommaAt(s)
        n == Cardinality(cuts)
        \* the k-th comma, with 0 before the first piece and Len+1 after the last
        cut(k) == IF k = 0 THEN 0
                  ELSE IF k = n + 1 THEN Len(s) + 1
                  ELSE CHOOSE i \in cuts : Cardinality({j \in cuts : j < i}) = k - 1
    IN  [k \in 1..(n + 1) |-> SubSeq(s, cut(k - 1) + 1, cut(k) - 1)]

----------------------------------------------------------------------------
(* The HTTP request and the environment *)

Fields == {"to", "participant_name", "certificate_url"}

PdfPrefix == << "data:application/pdf;base64", "," >>
PngPrefix == << "data:image/png;base64", "," >>

\* Generated base64 text: n alphabet characters, then pad '=' characters.  The
\* alphabet characters cycle with period 5, which divides no line length, so
\* that a lost, repeated or reordered line changes the text.
B64Cycle == << "A", "b", "0", "+", "/" >>
Payload(n, pad) ==
    [i \in 1..(n + pad) |-> IF i <= n THEN B64Cycle[((i - 1) % 5) + 1] ELSE "="]

\* s with the character at position i replaced by c
Poke(s, i, c) == [s EXCEPT ![i] = c]

\* the least length whose size estimate reaches MinDecodedSize (1334)
MinAcceptedLen == (4 * MinDecodedSize + 2) \div 3

\* the accepted text of the least length ends in one '='
Payloads ==
    {Payload(18 * LineLen - 1, pad) : pad \in 0..MaxPad}
    \cup {Payload(MinAcceptedLen - 1, 1), Payload(MinAcceptedLen - 1, 0)}
    \cup {Payload(MinBase64Len, 0), Payload(MinBase64Len - 1, 0), << >>}
    \cup {Poke(Payload(18 * LineLen, 0), 700, "!"),
          Poke(Payload(18 * LineLen, 0), LineLen + 1, LF),
          Poke(Payload(18 * LineLen, 0), 700, "=")}

\* the last address carries a line break and a second RCPT command
ToValues == { << >>, << "a", "b" >>, << "a", "@", "b", ".", "c" >>,
              << "a", " ", "@", "b", ".", "c" >>,
              << "a", "@", "b", ".", "c", ">", CR, LF, "RCPT", " ", "TO:<", "x" >> }
NameValues == { << >>, << "J", "o", " ", "U+00E9", "-", "D" >> }
UrlValues == { << >>, PngPrefix \o Payload(MinBase64Len, 0) }
             \cup {PdfPrefix \o p : p \in Payloads}

\* a subject of two lines, the second one written like a header field
Subject == << "Y", "o", "u", "r", " ", "C", "e", "r", "t", CR, LF, "B", "c", "c", ":", " ", "x" >>
\* a note longer than one quoted-printable line; its second line is the
\* delimiter line of a boundary that buildMimeMessage can generate, its
\* third line a single '.'
Note == [i \in 1..(QPLineLen + 2) |-> IF i = 3 THEN "=" ELSE "n"]
            \o << LF, "--", "----", "=", "NextPart_", "1754000000000", "_", "0.k3j9x",
                  LF, ".", LF, "n" >>
CertNumber == << "C", "E", "-", "0", "0", "1" >>

\* emailData as parsed by req.json(); a field named in missing is undefined
Body(missing, to, name, url) ==
    [ method |-> "POST", json |-> TRUE, missing |-> missing,
      to |-> IF "to" \in missing THEN << >> ELSE to,
      participant_name |-> IF "participant_name" \in missing THEN << >> ELSE name,
      certificate_url |-> IF "certificate_url" \in missing THEN << >> ELSE url,
      subject |-> Subject, message |-> Note, certificate_number |-> CertNumber ]

Requests ==
    { Body(m, t, n, u) : m \in SUBSET Fields, t \in ToValues, n \in NameValues,
                         u \in UrlValues }
    \cup { [Body({}, << >>, << >>, << >>) EXCEPT !.json = FALSE] }
    \cup { [Body({}, << >>, << >>, << >>) EXCEPT !.method = m] : m \in {"OPTIONS", "GET"} }

\* !emailData.f is false: f is neither undefined nor the empty string
Truthy(req, f) == f \notin req.missing /\ req[f] # << >>

\* /^[^\s@]+@[^\s@]+\.[^\s@]+$/.test(s)
EmailRegex(s) ==
    \E i \in 1..Len(s) : \E j \in 1..Len(s) :
        /\ 1 < i /\ i + 1 < j /\ j < Len(s)
        /\ s[i] = "@" /\ s[j] = "."
        /\ \A k \in 1..Len(s) : k # i => s[k] \notin (Whitespace \cup {"@"})

NoResponse == [status |-> 0, body |-> "none"]

\* handler: the Response it returns (the job it starts is in Handle)
HandlerResponse(req) ==
    IF req.method = "OPTIONS" THEN [status |-> 200, body |-> "null"]
    ELSE IF req.method # "POST" THEN [status |-> 405, body |-> "Method not allowed"]
    \* req.json() rejects, or emailData.certificate_url.substring throws a TypeError
    ELSE IF ~req.json \/ "certificate_url" \in req.missing
        THEN [status |-> 500, body |-> "Failed to process request"]
    ELSE IF ~Truthy(req, "to") \/ ~Truthy(req, "participant_name")
                \/ ~Truthy(req, "certificate_url")
        THEN [status |-> 400, body |-> "Missing required fields"]
    ELSE IF ~EmailRegex(req.to)
        THEN [status |-> 400, body |-> "Invalid email format"]
    ELSE IF ~StartsWith(req.certificate_url, PdfPrefix)
        THEN [status |-> 400, body |-> "Invalid certificate URL format"]
    ELSE LET parts == SplitComma(req.certificate_url)
         IN  IF Len(parts) < 2 \/ parts[2] = << >> \/ Len(parts[2]) < MinBase64Len
             THEN [status |-> 400, body |-> "Invalid or insufficient certificate data"]
             ELSE [status |-> 200, body |-> "Certificate email queued for sending"]

\* the handler reached sendEmailInBackground(emailData)
StartsJob(req) ==
    HandlerResponse(req) = [status |-> 200, body |-> "Certificate email queued for sending"]

----------------------------------------------------------------------------
(* sendEmailInBackground: validation, file name, template *)

\* const pdfBase64 = emailData.certificate_url.split(',')[1]
PdfBase64Of(req) == SplitComma(req.certificate_url)[2]

\* A variant of JobValidation without the test of the base64 characters
JobValidationAnyCharacters(req, password) ==
    IF password = << >> THEN "config_error"
    ELSE IF ~StartsWith(req.certificate_url, PdfPrefix) THEN "validation_failed"
    ELSE IF Len(PdfBase64Of(req)) < MinBase64Len THEN "validation_failed"
    ELSE IF 3 * Len(PdfBase64Of(req)) < 4 * MinDecodedSize THEN "validation_failed"
    ELSE "ok"

\* A variant of JobValidation without the test of the secret
JobValidationWithoutSecret(req, password) ==
    IF ~StartsWith(req.certificate_url, PdfPrefix) THEN "validation_failed"
    ELSE IF Len(PdfBase64Of(req)) < MinBase64Len THEN "validation_failed"
    ELSE IF ~IsBase64Shape(PdfBase64Of(req)) THEN "validation_failed"
    ELSE IF 3 * Len(PdfBase64Of(req)) < 4 * MinDecodedSize THEN "validation_failed"
    ELSE "ok"

\* The checks made before the attempt loop, in the code's order.  "ok" or the
\* reason of the early return.  decodedSize = (length * 3) / 4 is a fraction in
\* the code; decodedSize < 1000 is compared here as 3 * length < 4 * 1000.
JobValidation(req, password) ==
    IF password = << >> THEN "config_error"
    ELSE IF ~StartsWith(req.certificate_url, PdfPrefix) THEN "validation_failed"
    ELSE LET pdfBase64 == PdfBase64Of(req)
         IN  IF Len(pdfBase64) < MinBase64Len THEN "validation_failed"
             ELSE IF ~IsBase64Shape(pdfBase64) THEN "validation_failed"
             ELSE IF 3 * Len(pdfBase64) < 4 * MinDecodedSize THEN "validation_failed"
             ELSE "ok"

Alnum == Upper \cup Lower \cup Digit

\* .replace(/\s+/g, '_'): every maximal run of whitespace becomes one '_'
SquashSpaces(s) ==
    Flatten([i \in 1..Len(s) |->
                IF s[i] \notin Whitespace THEN << s[i] >>
                ELSE IF i < Len(s) /\ s[i + 1] \in Whitespace THEN << >>
                ELSE << "_" >>])

\* .replace(/[^a-zA-Z0-9\s]/g, '')
IsNameChar(c) == c \in Alnum \cup Whitespace

\* `${safeName}_Certificate_${timestamp}.pdf`
FilenameOf(name, date) ==
    SquashSpaces(SelectSeq(name, IsNameChar)) \o << "_Certificate_", date, ".pdf" >>

\* generateEmailTemplate.  The fixed markup is abbreviated to a few characters,
\* one of each kind the quoted-printable encoder treats differently: plain
\* characters, '=', a line feed, and characters above U+007F (the emoji, '(c)').
TemplateDefaultMessage == << "C", "o", "n", "g", "r", "a", "t", "s" >>
GenerateEmailTemplate(name, message, number) ==
    Trim(<< LF, "<", "m", "e", "t", "a", " ", "c", "h", "a", "r", "s", "e", "t", "=",
            "U", "T", "F", "-", "8", ">", LF, "<", "h", "1", ">", "U+D83C", "U+DF93", LF,
            "D", "e", "a", "r", " " >>
         \o name \o << ",", LF >>
         \o (IF message # << >> THEN message ELSE TemplateDefaultMessage) \o << LF >>
         \o (IF number # << >> THEN << "N", "o", ":", " " >> \o number \o << LF >>
             ELSE << >>)
         \o << "U+00A9", " ", "2", "0", "2", "5", LF, "<", "/", "h", "t", "m", "l", ">", LF >>)

----------------------------------------------------------------------------
(* SimpleSMTPClient.encodeQuotedPrintable *)

AboveAscii == NonAscii \cup {"U+00A9", "U+D83C", "U+DF93"}

\* match.charCodeAt(0).toString(16).toUpperCase()
HexOf(c) ==
    CASE c = "U+00E9" -> << "E", "9" >>
      [] c = "U+00A9" -> << "A", "9" >>
      [] c = "U+D83C" -> << "D", "8", "3", "C" >>
      [] c = "U+DF93" -> << "D", "F", "9", "3" >>

\* .replace(/[\u0080-\uFFFF]/g, m => `=${hex.length === 1 ? '0' + hex : hex}`)
QPEscapeHigh(s) ==
    Flatten([i \in 1..Len(s) |->
                IF s[i] \in AboveAscii
                THEN << "=" >> \o (IF Len(HexOf(s[i])) = 1 THEN << "0" >> ELSE << >>)
                            \o HexOf(s[i])
                ELSE << s[i] >>])

\* A variant of QPEscapeEquals that leaves '=' as it is
QPKeepEquals(s) == s

\* .replace(/=/g, '=3D')
QPEscapeEquals(s) ==
    Flatten([i \in 1..Len(s) |-> IF s[i] = "=" THEN << "=", "3", "D" >> ELSE << s[i] >>])

\* .replace(/\r?\n/g, '\r\n'): every LF, with the CR before it if there is
\* one, becomes CR LF
QPNewlines(s) ==
    Flatten([i \in 1..Len(s) |->
                IF s[i] = LF THEN CRLF
                ELSE IF s[i] = CR /\ i < Len(s) /\ s[i + 1] = LF THEN << >>
                ELSE << s[i] >>])

\* .replace(/(.{75})/g, '$1=\r\n'): '.' matches no line terminator, so the
\* matches are the successive groups of 75 characters of each line; "=\r\n"
\* follows the character whose place within its line is a multiple of 75
QPSoftBreaks(s) ==
    LET terminators == {j \in 1..Len(s) : s[j] \in {CR, LF}}
        lineStart(i) == IF \E j \in terminators : j < i
                        THEN CHOOSE j \in terminators :
                                 j < i /\ \A k \in terminators : k < i => k <= j
                        ELSE 0
    IN  Flatten([i \in 1..Len(s) |->
                    IF s[i] \notin {CR, LF} /\ (i - lineStart(i)) % QPLineLen = 0
                    THEN << s[i], "=", CR, LF >>
                    ELSE << s[i] >>])

EncodeQuotedPrintable(text) ==
    QPSoftBreaks(QPNewlines(QPEscapeEquals(QPEscapeHigh(text))))

----------------------------------------------------------------------------
(* SimpleSMTPClient.buildMimeMessage *)

\* A variant of CleanBase64 that also removes the padding
IsNotPad(c) == c # "="
CleanBase64WithoutPadding(pdfBase64) == SelectSeq(StripBreaks(Trim(pdfBase64)), IsNotPad)

\* cleanBase64: data.pdfBase64.trim(), then .replace(/[\r\n\t]/g, '')
CleanBase64(pdfBase64) == StripBreaks(Trim(pdfBase64))

\* A variant of Base64Lines that keeps full lines only, as match(/.{76}/g) would
Base64FullLinesOnly(clean) ==
    [k \in 1..(Len(clean) \div LineLen) |->
        SubSeq(clean, LineLen * (k - 1) + 1, LineLen * k)]

\* A variant of Base64Lines that does not wrap: the text as one line
Base64Unwrapped(clean) == IF clean = << >> THEN << >> ELSE << clean >>

\* cleanBase64.match(/.{1,76}/g) || []   (cleanBase64 holds no line terminator)
Base64Lines(clean) ==
    [k \in 1..((Len(clean) + LineLen - 1) \div LineLen) |->
        SubSeq(clean, LineLen * (k - 1) + 1, Min(LineLen * k, Len(clean)))]

\* base64Lines.join('\r\n')
FormattedBase64(clean) == Join(Base64Lines(clean), CRLF)

\* `----=NextPart_${Date.now()}_${Math.random().toString(36)}`
BoundaryOf(now, rnd) == << "----", "=", "NextPart_", now, "_", rnd >>

\* the message text; buildMimeMessage throws instead when the cleaned text
\* fails /^[A-Za-z0-9+/]+=*$/ (BuildThrows)
BuildThrows(data) == ~IsBase64Shape(CleanBase64(data.pdfBase64))
BuildMimeMessage(data, now, utc, rnd, rndId) ==
    LET boundary == BoundaryOf(now, rnd)
    IN  Join(<< << "Message-ID: ", "<", now, ".", rndId, "@academicdigital.space>" >>,
                << "Date: ", utc >>,
                << "From: " >> \o data.from,
                << "To: " >> \o data.to,
                << "Subject: " >> \o data.subject,
                << "MIME-Version: 1.0" >>,
                << "Content-Type: multipart/mixed; boundary=", "\"" >> \o boundary \o << "\"" >>,
                << "X-Mailer: Metascholar Certificate System" >>,
                << >>,
                << "This is a multi-part message in MIME format." >>,
                << >>,
                << "--" >> \o boundary,
                << "Content-Type: text/html; charset=utf-8" >>,
                << "Content-Transfer-Encoding: quoted-printable" >>,
                << >>,
                EncodeQuotedPrintable(data.html),
                << >>,
                << "--" >> \o boundary,
                << "Content-Type: application/pdf; name=", "\"" >> \o data.filename \o << "\"" >>,
                << "Content-Disposition: attachment; filename=", "\"" >> \o data.filename \o << "\"" >>,
                << "Content-Transfer-Encoding: base64" >>,
                << "Content-ID: <certificate_", now, ">" >>,
                << >>,
                FormattedBase64(CleanBase64(data.pdfBase64)),
                << >>,
                << "--" >> \o boundary \o << "--" >>,
                << >> >>, CRLF)

----------------------------------------------------------------------------
(* The peer: a scripted mail server behind the TLS transport *)

\* One event per readResponse call: a complete response (its text), the end of
\* the stream (conn.read returns null, readResponse returns ''), or a transport
\* failure (the read rejects).
Reply(code) == [kind |-> "reply", text |-> code \o << " ", "x" >>]
Eof == [kind |-> "eof", text |-> << >>]
Reset == [kind |-> "reset", text |-> << >>]

R220 == << "2", "2", "0" >>
R221 == << "2", "2", "1" >>
R235 == << "2", "3", "5" >>
R250 == << "2", "5", "0" >>
R334 == << "3", "3", "4" >>
R354 == << "3", "5", "4" >>
R450 == << "4", "5", "0" >>
R550 == << "5", "5", "0" >>

\* the replies of a server that accepts everything: greeting, EHLO, AUTH LOGIN,
\* user name, password, MAIL FROM, RCPT TO, DATA, end of data, QUIT
HappyCodes == << R220, R250, R334, R334, R235, R250, R250, R354, R250, R221 >>
HappyScript == [i \in 1..Len(HappyCodes) |-> Reply(HappyCodes[i])]

\* the reply sequence 220, 250, 334, 235, 250, 250, 354, 250, 221
NineCodes == << R220, R250, R334, R235, R250, R250, R354, R250, R221 >>
NineScript == [i \in 1..Len(NineCodes) |-> Reply(NineCodes[i])]

Deviants == {Reply(R450), Reply(R550), Reset}

\* A peer either follows a fixed script (todo, then a closed stream), or is
\* free: it answers as the accepting server does, except that up to
\* MaxDeviations of its events are replaced by one of Deviants.  Once the
\* transport has failed it fails every later call (dead).
ScriptedPeer(sc) == [free |-> FALSE, todo |-> sc, pos |-> 1, devs |-> 0, dead |-> FALSE]
FreePeer == [free |-> TRUE, todo |-> << >>, pos |-> 1, devs |-> 0, dead |-> FALSE]
NoPeer == ScriptedPeer(<< >>)
Peers == {FreePeer, ScriptedPeer(NineScript)}

Expected(pos) == IF pos <= Len(HappyScript) THEN HappyScript[pos] ELSE Eof

\* the events the next read can meet
Events(p) ==
    IF p.dead THEN {Reset}
    ELSE IF p.free
    THEN {Expected(p.pos)} \cup (IF p.devs < MaxDeviations THEN Deviants ELSE {})
    ELSE {IF p.todo = << >> THEN Eof ELSE Head(p.todo)}

\* the peer after that read met e
After(p, e) ==
    IF p.dead THEN p
    ELSE IF p.free
    THEN [p EXCEPT !.pos = @ + 1, !.devs = IF e = Expected(p.pos) THEN @ ELSE @ + 1,
                   !.dead = (e = Reset)]
    ELSE [p EXCEPT !.todo = IF @ = << >> THEN << >> ELSE Tail(@)]

----------------------------------------------------------------------------
(* SimpleSMTPClient *)

Hostname == << "smtp.titan.email" >>
Username == << "support@academicdigital.space" >>
FromHeader == << "Metascholar Institute - Workshop Certification ", "<",
                 "support@academicdigital.space", ">" >>

\* btoa: an injective encoding, kept as a tagged copy of its argument
Btoa(s) == << "btoa(" >> \o s \o << ")" >>

SetMin(S) == CHOOSE x \in S : \A y \in S : x <= y

\* data.from.includes('<') ? data.from.match(/<(.+?)>/)?.[1] || data.from : data.from
FromEmail(from) ==
    LET closers(i) == {j \in 1..Len(from) : j > i + 1 /\ from[j] = ">"}
        starts == {i \in 1..Len(from) : from[i] = "<" /\ closers(i) # {}}
    IN  IF starts = {} THEN from
        ELSE SubSeq(from, SetMin(starts) + 1, SetMin(closers(SetMin(starts))) - 1)

\* the data object sendEmailInBackground passes to sendEmail
EmailDataOf(req, date) ==
    [ from |-> FromHeader, to |-> req.to, subject |-> req.subject,
      html |-> GenerateEmailTemplate(req.participant_name, req.message,
                                     req.certificate_number),
      pdfBase64 |-> PdfBase64Of(req),
      filename |-> FilenameOf(req.participant_name, date) ]

\* sendEmail's commands, in the order of its sendCommand calls
Steps == << "EHLO", "AUTH", "USER", "PASS", "MAIL", "RCPT", "DATA" >>

\* the position after a command of sendEmail: the next command, or the body
StepAfter(step) ==
    LET k == CHOOSE i \in 1..Len(Steps) : Steps[i] = step
    IN  IF k = Len(Steps) THEN "BODY" ELSE Steps[k + 1]

\* A variant of CommandOf that names the recipient before the sender
CommandOfRcptFirst(step, data, password) ==
    CASE step = "EHLO" -> [command |-> << "EHLO" >>, parameter |-> Hostname]
      [] step = "AUTH" -> [command |-> << "AUTH" >>, parameter |-> << "LOGIN" >>]
      [] step = "USER" -> [command |-> Btoa(Username), parameter |-> << >>]
      [] step = "PASS" -> [command |-> Btoa(password), parameter |-> << >>]
      [] step = "RCPT" -> [command |-> << "MAIL" >>,
                           parameter |-> << "FROM:<" >> \o FromEmail(data.from) \o << ">" >>]
      [] step = "MAIL" -> [command |-> << "RCPT" >>,
                           parameter |-> << "TO:<" >> \o data.to \o << ">" >>]
      [] step = "DATA" -> [command |-> << "DATA" >>, parameter |-> << >>]

\* sendCommand's arguments at each step
CommandOf(step, data, password) ==
    CASE step = "EHLO" -> [command |-> << "EHLO" >>, parameter |-> Hostname]
      [] step = "AUTH" -> [command |-> << "AUTH" >>, parameter |-> << "LOGIN" >>]
      [] step = "USER" -> [command |-> Btoa(Username), parameter |-> << >>]
      [] step = "PASS" -> [command |-> Btoa(password), parameter |-> << >>]
      [] step = "MAIL" -> [command |-> << "MAIL" >>,
                           parameter |-> << "FROM:<" >> \o FromEmail(data.from) \o << ">" >>]
      [] step = "RCPT" -> [command |-> << "RCPT" >>,
                           parameter |-> << "TO:<" >> \o data.to \o << ">" >>]
      [] step = "DATA" -> [command |-> << "DATA" >>, parameter |-> << >>]

\* parameter ? `${command} ${parameter}` : command
FullCommand(c) ==
    IF c.parameter # << >> THEN c.command \o << " " >> \o c.parameter ELSE c.command

Terminator == << CR, LF, ".", CR, LF >>

\* String.prototype.includes
Includes(s, sub) ==
    \E i \in 0..(Len(s) - Len(sub)) : SubSeq(s, i + 1, i + Len(sub)) = sub

\* sendCommand: isCredential = command.includes(btoa(username)) ||
\* command.includes(btoa(password));
\* console.log('SMTP >', isCredential ? '[CREDENTIAL]' : fullCommand)
CommandLog(c, password) ==
    LET isCredential == Includes(c.command, Btoa(Username))
                            \/ Includes(c.command, Btoa(password))
    IN  << "SMTP >" >> \o (IF isCredential THEN << "[CREDENTIAL]" >> ELSE FullCommand(c))

\* the lines one sendCommand call logs: the command, and
\* console.log('SMTP <', response.substring(0, 100)) unless reading threw
SendCommandLogs(c, password, e) ==
    << CommandLog(c, password) >>
        \o (IF e.kind = "reset" THEN << >>
            ELSE << << "SMTP <" >> \o SubSeq(e.text, 1, Min(Len(e.text), 100)) >>)

\* new Date().toISOString().split('T')[0], Date.now(), Math.random().toString(36),
\* new Date().toUTCString()
Today == "2025-07-31"
Now == "1754000000000"
NowUTC == "Thu, 31 Jul 2025 22:13:20 GMT"
\* the values of Math.random().toString(36) in the boundary and in the
\* Message-ID of one message
RandPairs == << << "0.k3j9x", "0.a81zq" >>, << "0.a81zq", "0.a81zq" >>,
               << "0.zz01b", "0.k3j9x" >>, << "0.a81zq", "0.zz01b" >> >>
RandDraws == {RandPairs[i] : i \in 1..Min(MaxRand, Len(RandPairs))}

----------------------------------------------------------------------------
(* State machine *)

\* what validatePdfBase64 starts from: const errors = [], const metadata = {...}
NoValidation ==
    [ isValid |-> FALSE, errors |-> << >>,
      metadata |-> [originalLength |-> 0, cleanedLength |-> 0, estimatedFileSize |-> 0,
                    hasValidHeader |-> FALSE, hasValidPadding |-> FALSE] ]

\* the validation test endpoint is not serving a request
NoTest ==
    /\ testRequest = [method |-> "none", hasUrl |-> FALSE, certificate_url |-> << >>]
    /\ validation = NoValidation
    /\ testResponse = [status |-> 0, body |-> "none"]

\* the webhook function serves no call
NoHook ==
    /\ registrations = {}
    /\ hookCalls = << >>

\* no message is being written by sendEmailContent
NoChunk ==
    /\ content = << >>
    /\ sliceStart = 0
    /\ written = << >>
    /\ sending = "none"

\* no response is being read chunk by chunk
NoRead ==
    /\ incoming = [bytes |-> << >>, then |-> "eof"]
    /\ received = << >>
    /\ attempts = 0
    /\ rd = "off"

\* no batch is being sent
NoBatch ==
    /\ certificates = << >>
    /\ idx = 0
    /\ ui = "off"
    /\ dbStatus = << >>
    /\ inflight = {}
    /\ responses = << >>
    /\ jobs = << >>
    /\ toast = [title |-> "none", description |-> "none", count |-> 0]
    /\ events = << >>

Init ==
    /\ request \in Requests
    /\ smtpPassword \in { << >>, << "s3cret" >> }
    /\ response = NoResponse
    /\ pc = "idle"
    /\ attempt = 0
    /\ outcome = "none"
    /\ conn = 0
    /\ opened = 0
    /\ closedConns = {}
    /\ peer = NoPeer
    /\ wire = << >>
    /\ replies = << >>
    /\ results = << >>
    /\ lastError = "none"
    /\ quitFailed = FALSE
    /\ raised = FALSE
    /\ sleeps = << >>
    /\ accepted = 0
    /\ logged = << >>
    /\ NoBatch
    /\ NoRead
    /\ NoTest
    /\ NoHook
    /\ NoChunk

\* A variant of the handler that awaits the job and leaves the response to
\* the end of the delivery
HandleAwaitingDelivery ==
    /\ pc = "idle"
    /\ response' = IF StartsJob(request) THEN response ELSE HandlerResponse(request)
    /\ IF StartsJob(request)
       THEN LET v == JobValidation(request, smtpPassword)
            IN  IF v = "ok" THEN pc' = "loop" /\ UNCHANGED outcome
                ELSE pc' = "done" /\ outcome' = v
       ELSE pc' = "nojob" /\ UNCHANGED outcome
    /\ UNCHANGED << logged, hookVars, chunkVars, testVars, readVars, batchVars, request, smtpPassword, attempt, conn, opened, closedConns,
                    peer, wire, replies, results, lastError, quitFailed, raised,
                    sleeps, accepted >>

\* handler: the response, and for an accepted POST the call
\* sendEmailInBackground(emailData).catch(...), which is not awaited.  The call
\* runs sendEmailInBackground up to its first await (the checks before the
\* attempt loop) before the handler returns; the attempts follow the response.
Handle ==
    /\ pc = "idle"
    /\ response' = HandlerResponse(request)
    /\ IF StartsJob(request)
       THEN LET v == JobValidation(request, smtpPassword)
            IN  IF v = "ok" THEN pc' = "loop" /\ UNCHANGED outcome
                ELSE pc' = "done" /\ outcome' = v
       ELSE pc' = "nojob" /\ UNCHANGED outcome
    /\ UNCHANGED << logged, hookVars, chunkVars, testVars, readVars, batchVars, request, smtpPassword, attempt, conn, opened, closedConns,
                    peer, wire, replies, results, lastError, quitFailed, raised,
                    sleeps, accepted >>

\* A variant of the loop condition that admits one more round
LoopContinuesInclusive(n) == n <= maxAttempts

\* while (attempt < maxAttempts)
LoopContinues(n) == n < maxAttempts

\* the attempt's try block threw: record it and enter the catch block
Throw(kind) ==
    /\ results' = Append(results, "error")
    /\ lastError' = kind
    /\ pc' = "catch"

\* A variant of connect() that takes the connection of the previous attempt
\* again instead of opening a new one.
OpenConnectionPooled(peers, mayRefuse) ==
    /\ quitFailed' = FALSE
    /\ raised' = FALSE
    /\ wire' = << >>
    /\ replies' = << >>
    /\ logged' = << >>
    /\ \/ /\ mayRefuse
          /\ Throw("connect_failed")
          /\ peer' = NoPeer
          /\ UNCHANGED << conn, opened >>
       \/ /\ peer' \in peers
          /\ opened' = Max(opened, 1)
          /\ conn' = Max(opened, 1)
          /\ lastError' = "none"
          /\ pc' = "greeting"
          /\ UNCHANGED results

\* connect(): this.conn = await Deno.connectTls(...).  The call rejects
\* (when mayRefuse) and this.conn keeps its value, or it yields a new
\* connection to one of peers.
OpenConnection(peers, mayRefuse) ==
    /\ quitFailed' = FALSE
    /\ raised' = FALSE
    /\ wire' = << >>
    /\ replies' = << >>
    /\ logged' = << >>
    /\ \/ /\ mayRefuse
          /\ Throw("connect_failed")
          /\ peer' = NoPeer
          /\ UNCHANGED << conn, opened >>
       \/ /\ peer' \in peers
          /\ opened' = opened + 1
          /\ conn' = opened + 1
          /\ lastError' = "none"
          /\ pc' = "greeting"
          /\ UNCHANGED results

\* attempt++; smtpClient.connect() up to Deno.connectTls
ConnectVia(peers, mayRefuse) ==
    /\ pc = "loop"
    /\ LoopContinues(attempt)
    /\ attempt' = attempt + 1
    /\ OpenConnection(peers, mayRefuse)
    /\ UNCHANGED << hookVars, chunkVars, testVars, readVars, batchVars, request, smtpPassword, response, outcome, closedConns, sleeps,
                    accepted >>

Connect == ConnectVia(Peers, TRUE)

\* A variant of the greeting test that accepts every greeting
ReadGreetingUncheckedThen(next) ==
    /\ pc = "greeting"
    /\ \E e \in Events(peer) :
           /\ peer' = After(peer, e)
           /\ IF e.kind = "reset"
              THEN Throw("transport_error") /\ UNCHANGED << replies, logged >>
              ELSE /\ replies' = Append(replies, e.text)
                   /\ logged' = Append(logged, << "Server greeting:" >> \o e.text)
                   /\ pc' = next /\ UNCHANGED << results, lastError >>
    /\ UNCHANGED << hookVars, chunkVars, testVars, readVars, batchVars, request, smtpPassword, response, attempt, outcome, conn, opened,
                    closedConns, wire, quitFailed, raised, sleeps, accepted >>

\* connect(): const greeting = await this.readResponse(); startsWith('220');
\* next is where the caller of connect() goes on
ReadGreetingThen(next) ==
    /\ pc = "greeting"
    /\ \E e \in Events(peer) :
           /\ peer' = After(peer, e)
           /\ IF e.kind = "reset"
              THEN Throw("transport_error") /\ UNCHANGED << replies, logged >>
              ELSE /\ replies' = Append(replies, e.text)
                   /\ logged' = Append(logged, << "Server greeting:" >> \o e.text)
                   /\ IF StartsWith(e.text, R220)
                      THEN pc' = next /\ UNCHANGED << results, lastError >>
                      ELSE Throw("connection_rejected")
    /\ UNCHANGED << hookVars, chunkVars, testVars, readVars, batchVars, request, smtpPassword, response, attempt, outcome, conn, opened,
                    closedConns, wire, quitFailed, raised, sleeps, accepted >>

\* in the job sendEmail follows connect()
ReadGreeting == ReadGreetingThen("EHLO")

\* sendEmail: one sendCommand call (write the command, read one response; the
\* response is logged and not examined); before the first one,
\* console.log(`Sending email from ${data.from} to ${data.to}`)
SendStep ==
    /\ pc \in {Steps[i] : i \in 1..Len(Steps)}
    /\ IF conn = 0
       THEN Throw("not_connected") /\ UNCHANGED << wire, replies, peer, logged >>
       ELSE \E e \in Events(peer) :
                /\ wire' = Append(wire, FullCommand(CommandOf(pc, EmailDataOf(request, Today),
                                                              smtpPassword)) \o CRLF)
                /\ logged' = logged
                       \o (IF pc = "EHLO"
                           THEN << << "Sending email from " >> \o FromHeader
                                       \o << " to " >> \o request.to >>
                           ELSE << >>)
                       \o SendCommandLogs(CommandOf(pc, EmailDataOf(request, Today),
                                                    smtpPassword), smtpPassword, e)
                /\ peer' = After(peer, e)
                /\ IF e.kind = "reset"
                   THEN Throw("transport_error") /\ UNCHANGED replies
                   ELSE /\ replies' = Append(replies, e.text)
                        /\ pc' = StepAfter(pc)
                        /\ UNCHANGED << results, lastError >>
    /\ UNCHANGED << hookVars, chunkVars, testVars, readVars, batchVars, request, smtpPassword, response, attempt, outcome, conn, opened,
                    closedConns, quitFailed, raised, sleeps, accepted >>

\* sendEmail: buildMimeMessage, write the message, write CRLF . CRLF
SendBody ==
    /\ pc = "BODY"
    /\ LET data == EmailDataOf(request, Today)
       IN  IF BuildThrows(data)
           THEN Throw("invalid_base64") /\ UNCHANGED wire
           ELSE /\ \E rnd \in RandDraws :
                       wire' = wire \o << BuildMimeMessage(data, Now, NowUTC, rnd[1], rnd[2]),
                                          Terminator >>
                /\ pc' = "FINAL"
                /\ UNCHANGED << results, lastError >>
    /\ UNCHANGED << logged, hookVars, chunkVars, testVars, readVars, batchVars, request, smtpPassword, response, attempt, outcome, conn, opened,
                    closedConns, peer, replies, quitFailed, raised, sleeps, accepted >>

\* sendEmail: const response = await this.readResponse(); startsWith('250')
ReadFinal ==
    /\ pc = "FINAL"
    /\ \E e \in Events(peer) :
           /\ peer' = After(peer, e)
           /\ IF e.kind = "reset"
              THEN Throw("transport_error") /\ UNCHANGED << replies, accepted, logged >>
              ELSE /\ replies' = Append(replies, e.text)
                   /\ logged' = Append(logged, << "Final response:" >> \o e.text)
                   /\ IF StartsWith(e.text, R250)
                      THEN /\ results' = Append(results, "ok")
                           /\ accepted' = accepted + 1
                           /\ pc' = "sent"
                           /\ UNCHANGED lastError
                      ELSE Throw("send_failed") /\ UNCHANGED accepted
    /\ UNCHANGED << hookVars, chunkVars, testVars, readVars, batchVars, request, smtpPassword, response, attempt, outcome, conn, opened,
                    closedConns, wire, quitFailed, raised, sleeps >>

\* A variant of disconnect() without the try/catch around QUIT: a failed QUIT
\* propagates and the connection is kept
DisconnectRaising ==
    IF conn # 0
    THEN \E e \in Events(peer) :
             /\ wire' = Append(wire, FullCommand([command |-> << "QUIT" >>,
                                                  parameter |-> << >>]) \o CRLF)
             /\ logged' = logged \o SendCommandLogs([command |-> << "QUIT" >>,
                                                     parameter |-> << >>],
                                                    smtpPassword, e)
             /\ peer' = After(peer, e)
             /\ replies' = IF e.kind = "reset" THEN replies ELSE Append(replies, e.text)
             /\ quitFailed' = (e.kind = "reset")
             /\ raised' = (e.kind = "reset")
             /\ closedConns' = IF e.kind = "reset" THEN closedConns
                               ELSE closedConns \cup {conn}
             /\ conn' = IF e.kind = "reset" THEN conn ELSE 0
    ELSE /\ quitFailed' = FALSE
         /\ raised' = FALSE
         /\ UNCHANGED << wire, peer, replies, closedConns, conn, logged >>

\* A variant of disconnect() that clears this.conn without calling close().
DisconnectWithoutClose ==
    IF conn # 0
    THEN \E e \in Events(peer) :
             /\ wire' = Append(wire, FullCommand([command |-> << "QUIT" >>,
                                                  parameter |-> << >>]) \o CRLF)
             /\ logged' = logged \o SendCommandLogs([command |-> << "QUIT" >>,
                                                     parameter |-> << >>],
                                                    smtpPassword, e)
             /\ peer' = After(peer, e)
             /\ replies' = IF e.kind = "reset" THEN replies ELSE Append(replies, e.text)
             /\ quitFailed' = (e.kind = "reset")
             /\ raised' = FALSE
             /\ closedConns' = closedConns
             /\ conn' = 0
    ELSE /\ quitFailed' = FALSE
         /\ raised' = FALSE
         /\ UNCHANGED << wire, peer, replies, closedConns, conn, logged >>

\* disconnect(): QUIT inside try/catch, then close and clear the connection
Disconnect ==
    IF conn # 0
    THEN \E e \in Events(peer) :
             /\ wire' = Append(wire, FullCommand([command |-> << "QUIT" >>,
                                                  parameter |-> << >>]) \o CRLF)
             /\ logged' = logged \o SendCommandLogs([command |-> << "QUIT" >>,
                                                     parameter |-> << >>],
                                                    smtpPassword, e)
             /\ peer' = After(peer, e)
             /\ replies' = IF e.kind = "reset" THEN replies ELSE Append(replies, e.text)
             /\ quitFailed' = (e.kind = "reset")
             /\ raised' = FALSE
             /\ closedConns' = closedConns \cup {conn}
             /\ conn' = 0
    ELSE /\ quitFailed' = FALSE
         /\ raised' = FALSE
         /\ UNCHANGED << wire, peer, replies, closedConns, conn, logged >>

\* try block after sendEmail returned: await smtpClient.disconnect(); return
DisconnectAfterSend ==
    /\ pc = "sent"
    /\ Disconnect
    /\ IF raised'
       THEN /\ pc' = "catch"
            /\ results' = [results EXCEPT ![Len(results)] = "error"]
            /\ lastError' = "disconnect_failed"
            /\ UNCHANGED outcome
       ELSE /\ pc' = "done"
            /\ outcome' = "sent"
            /\ UNCHANGED << results, lastError >>
    /\ UNCHANGED << hookVars, chunkVars, testVars, readVars, batchVars, request, smtpPassword, response, attempt, opened, sleeps, accepted >>

\* catch block: disconnect(), then the 2 s pause unless this was the last attempt
Catch ==
    /\ pc = "catch"
    /\ Disconnect
    /\ IF raised'
       THEN pc' = "done" /\ outcome' = "rejected" /\ UNCHANGED sleeps
       ELSE /\ pc' = "loop"
            /\ sleeps' = IF attempt < maxAttempts THEN Append(sleeps, RetryDelayMs)
                         ELSE sleeps
            /\ UNCHANGED outcome
    /\ UNCHANGED << hookVars, chunkVars, testVars, readVars, batchVars, request, smtpPassword, response, attempt, opened, results, lastError,
                    accepted >>

\* the loop condition is false: console.error('All attempts failed'), return
LoopExit ==
    /\ pc = "loop"
    /\ ~LoopContinues(attempt)
    /\ pc' = "done"
    /\ outcome' = "failed"
    /\ UNCHANGED << logged, hookVars, chunkVars, testVars, readVars, batchVars, request, smtpPassword, response, attempt, conn, opened, closedConns,
                    peer, wire, replies, results, lastError, quitFailed, raised, sleeps,
                    accepted >>

Next ==
    \/ Handle
    \/ Connect
    \/ ReadGreeting
    \/ SendStep
    \/ SendBody
    \/ ReadFinal
    \/ DisconnectAfterSend
    \/ Catch
    \/ LoopExit

Spec == Init /\ [][Next]_vars

----------------------------------------------------------------------------
(* The delivery job against servers whose responses are malformed or
   unexpected *)

\* a response line that carries no reply code
Garbled == [kind |-> "reply", text |-> << "?", "?" >>]

\* servers that answer the connection or the message with a malformed line or
\* with a code that does not belong there, and follow the accepting dialogue
\* otherwise
GarbledPeers ==
    { ScriptedPeer(<< Garbled >>),
      ScriptedPeer(<< Reply(R354) >>),
      ScriptedPeer([HappyScript EXCEPT ![9] = Garbled]),
      ScriptedPeer([HappyScript EXCEPT ![9] = Reply(R354)]) }

ConnectGarbled == ConnectVia(GarbledPeers, FALSE)

NextGarbled ==
    \/ Handle
    \/ ConnectGarbled
    \/ ReadGreeting
    \/ SendStep
    \/ SendBody
    \/ ReadFinal
    \/ Catch
    \/ LoopExit

SpecGarbled == Init /\ [][NextGarbled]_vars

----------------------------------------------------------------------------
(* SimpleSMTPClient on its own: connect(), sendEmail() and disconnect()
   called in any order on one client *)

\* one accepted request supplies the message data
ClientRequest ==
    Body({}, << "a", "@", "b", ".", "c" >>, << "J", "o", " ", "U+00E9", "-", "D" >>,
         PdfPrefix \o Payload(18 * LineLen - 1, 1))

InitClient ==
    /\ request = ClientRequest
    /\ smtpPassword = << "s3cret" >>
    /\ response = NoResponse
    /\ pc = "client"
    /\ attempt = 0
    /\ outcome = "none"
    /\ conn = 0
    /\ opened = 0
    /\ closedConns = {}
    /\ peer = NoPeer
    /\ wire = << >>
    /\ replies = << >>
    /\ results = << >>
    /\ lastError = "none"
    /\ quitFailed = FALSE
    /\ raised = FALSE
    /\ sleeps = << >>
    /\ accepted = 0
    /\ logged = << >>
    /\ NoBatch
    /\ NoRead
    /\ NoTest
    /\ NoHook
    /\ NoChunk

\* no call of the client is in progress
BetweenCalls == pc \in {"client", "sent", "catch"}

\* the calls made so far are fewer than MaxCalls (each connection opened and
\* each call that ended counts)
CallsLeft == opened + Len(results) < MaxCalls

\* connect() up to Deno.connectTls
ClientConnect ==
    /\ BetweenCalls
    /\ CallsLeft
    /\ OpenConnection({ScriptedPeer(HappyScript), ScriptedPeer(NineScript)}, TRUE)
    /\ UNCHANGED << hookVars, chunkVars, testVars, readVars, batchVars, request, smtpPassword, response, attempt, outcome, closedConns,
                    sleeps, accepted >>

\* connect() returns to its caller after the greeting
ClientReadGreeting == ReadGreetingThen("client")

\* A variant of sendEmail without its first line: EHLO is written before
\* the state of the connection is looked at
ClientSendEmailUnguarded ==
    /\ BetweenCalls
    /\ CallsLeft
    /\ wire' = Append(wire, << "EHLO", " " >> \o Hostname \o CRLF)
    /\ IF conn = 0
       THEN Throw("not_connected")
       ELSE pc' = "AUTH" /\ UNCHANGED << results, lastError >>
    /\ UNCHANGED << logged, hookVars, chunkVars, testVars, readVars, batchVars, request, smtpPassword, response, attempt, outcome, conn, opened,
                    closedConns, peer, replies, quitFailed, raised, sleeps,
                    accepted >>

\* sendEmail(): if (!this.conn) throw new Error('Not connected to SMTP server')
ClientSendEmail ==
    /\ BetweenCalls
    /\ CallsLeft
    /\ IF conn = 0
       THEN Throw("not_connected")
       ELSE pc' = "EHLO" /\ UNCHANGED << results, lastError >>
    /\ UNCHANGED << logged, hookVars, chunkVars, testVars, readVars, batchVars, request, smtpPassword, response, attempt, outcome, conn, opened,
                    closedConns, peer, wire, replies, quitFailed, raised, sleeps,
                    accepted >>

\* disconnect()
ClientDisconnect ==
    /\ BetweenCalls
    /\ Disconnect
    /\ pc' = "client"
    /\ UNCHANGED << hookVars, chunkVars, testVars, readVars, batchVars, request, smtpPassword, response, attempt, outcome, opened, results,
                    lastError, sleeps, accepted >>

NextClient ==
    \/ ClientConnect
    \/ ClientReadGreeting
    \/ ClientSendEmail
    \/ SendStep
    \/ SendBody
    \/ ReadFinal
    \/ ClientDisconnect

SpecClient == InitClient /\ [][NextClient]_vars

----------------------------------------------------------------------------
(* sendCertificates (unnamed/part_001): the page posts one request per
   issued certificate, each request starting a delivery job in the function *)

\* what the certificates table holds for a recipient: a certificate that can
\* be delivered, or one whose address the function refuses
CertKinds == {"deliverable", "bad_address"}

\* body: { to: cert.participant_email, ..., certificate_url: cert.certificate_url }
CertRequest ==
    [k \in CertKinds |->
        Body({},
             IF k = "bad_address" THEN << "a", "b" >> ELSE << "a", "@", "b", ".", "c" >>,
             << "J", "o", " ", "U+00E9", "-", "D" >>,
             PdfPrefix \o Payload(18 * LineLen - 1, 1))]

\* the handler's Response to that body, and how the job it starts fares
\* before its first attempt ("nojob": no job is started)
CertResponse == [k \in CertKinds |-> HandlerResponse(CertRequest[k])]
CertVerdict ==
    [k \in CertKinds |->
        IF StartsJob(CertRequest[k]) THEN JobValidation(CertRequest[k], << "s3cret" >>)
        ELSE "nojob"]

\* functions.invoke could not reach the function
FetchFailed == [status |-> 0, body |-> "fetch_error"]

\* functions.invoke returns an error for every response outside 2xx
InvokeError(r) == r.status < 200 \/ r.status > 299

NoJob == [pc |-> "none", attempt |-> 0, outcome |-> "none"]
NoToast == [title |-> "none", description |-> "none", count |-> 0]
Recipients == 1..Len(certificates)

InitBatch ==
    /\ request = ClientRequest
    /\ smtpPassword = << "s3cret" >>
    /\ response = NoResponse
    /\ pc = "batch"
    /\ attempt = 0
    /\ outcome = "none"
    /\ conn = 0
    /\ opened = 0
    /\ closedConns = {}
    /\ peer = NoPeer
    /\ wire = << >>
    /\ replies = << >>
    /\ results = << >>
    /\ lastError = "none"
    /\ quitFailed = FALSE
    /\ raised = FALSE
    /\ sleeps = << >>
    /\ accepted = 0
    /\ logged = << >>
    /\ certificates \in UNION {[1..n -> CertKinds] : n \in 0..MaxBatch}
    /\ idx = 0
    /\ ui = "idle"
    /\ dbStatus = [j \in Recipients |-> "issued"]
    /\ inflight = {}
    /\ responses = [j \in Recipients |-> NoResponse]
    /\ jobs = [j \in Recipients |-> NoJob]
    /\ toast = NoToast
    /\ events = << >>
    /\ NoRead
    /\ NoTest
    /\ NoHook
    /\ NoChunk

\* select ... .eq('status', 'issued'); fetchError and the empty list end the call
Fetch ==
    /\ ui = "idle"
    /\ \/ /\ toast' = [title |-> "Error", description |-> "Failed to fetch certificates",
                       count |-> 0]
          /\ ui' = "ended"
          /\ UNCHANGED idx
       \/ IF certificates = << >>
          THEN /\ toast' = [title |-> "No Certificates to Send",
                            description |-> "Please generate certificates first",
                            count |-> 0]
               /\ ui' = "ended"
               /\ UNCHANGED idx
          ELSE /\ ui' = "update"
               /\ idx' = 1
               /\ UNCHANGED toast
    /\ UNCHANGED << hookVars, chunkVars, testVars, readVars, jobVars, certificates, dbStatus, inflight, responses, jobs, events >>

\* update({ status: 'sent', ... }).eq('id', cert.id); updateError is thrown to
\* the outer catch, which ends the loop
UpdateStatus ==
    /\ ui = "update"
    /\ \/ /\ dbStatus' = [dbStatus EXCEPT ![idx] = "sent"]
          /\ ui' = "invoke"
          /\ UNCHANGED toast
       \/ /\ ui' = "aborted"
          /\ toast' = [title |-> "Sending Failed",
                       description |-> "Failed to update certificate for",
                       count |-> 0]
          /\ UNCHANGED dbStatus
    /\ UNCHANGED << hookVars, chunkVars, testVars, readVars, jobVars, certificates, idx, inflight, responses, jobs, events >>

\* A variant of the call of the function that does not wait for its result.
InvokeWithoutAwait ==
    /\ ui = "invoke"
    /\ inflight' = inflight \cup {idx}
    /\ events' = Append(events, [what |-> "request", of |-> idx])
    /\ ui' = "pause"
    /\ UNCHANGED << hookVars, chunkVars, testVars, readVars, jobVars, certificates, idx, dbStatus, responses, jobs, toast >>

\* await supabase.functions.invoke('send-certificate-email', { body }): the
\* request leaves
Invoke ==
    /\ ui = "invoke"
    /\ inflight' = inflight \cup {idx}
    /\ events' = Append(events, [what |-> "request", of |-> idx])
    /\ ui' = "await"
    /\ UNCHANGED << hookVars, chunkVars, testVars, readVars, jobVars, certificates, idx, dbStatus, responses, jobs, toast >>

\* the function handles the request of recipient j: it starts the job, which
\* runs up to its first await (validation, then attempt 1 begins to connect),
\* and returns its Response
Serve(j) ==
    /\ j \in inflight
    /\ inflight' = inflight \ {j}
    /\ responses' = [responses EXCEPT ![j] = CertResponse[certificates[j]]]
    /\ LET v == CertVerdict[certificates[j]]
       IN  /\ jobs' = [jobs EXCEPT ![j] =
                         IF v = "nojob" THEN NoJob
                         ELSE IF v = "ok"
                         THEN [pc |-> "connecting", attempt |-> 1, outcome |-> "none"]
                         ELSE [pc |-> "done", attempt |-> 0, outcome |-> v]]
           /\ events' = IF v = "ok" THEN Append(events, [what |-> "attempt", of |-> j])
                        ELSE events
    /\ UNCHANGED << hookVars, chunkVars, testVars, readVars, jobVars, certificates, idx, ui, dbStatus, toast >>

\* the request of recipient j does not reach the function
RequestFails(j) ==
    /\ j \in inflight
    /\ inflight' = inflight \ {j}
    /\ responses' = [responses EXCEPT ![j] = FetchFailed]
    /\ UNCHANGED << hookVars, chunkVars, testVars, readVars, jobVars, certificates, idx, ui, dbStatus, jobs, toast, events >>

\* A variant of the inner try without its catch: the error of a failed
\* request reaches the outer catch.
ReturnRethrowing ==
    /\ ui = "await"
    /\ idx \notin inflight
    /\ IF InvokeError(responses[idx])
       THEN /\ ui' = "aborted"
            /\ toast' = [title |-> "Sending Failed",
                         description |-> "Failed to send email to", count |-> 0]
       ELSE ui' = "pause" /\ UNCHANGED toast
    /\ UNCHANGED << hookVars, chunkVars, testVars, readVars, jobVars, certificates, idx, dbStatus, inflight, responses, jobs,
                    events >>

\* invoke has returned: if (emailError) throw ..., caught by the inner catch,
\* which logs and goes on
Return ==
    /\ ui = "await"
    /\ idx \notin inflight
    /\ ui' = "pause"
    /\ UNCHANGED << hookVars, chunkVars, testVars, readVars, jobVars, certificates, idx, dbStatus, inflight, responses, jobs,
                    toast, events >>

\* the 200 ms pause, then the next certificate; after the last one the toast
\* 'Certificates Sent'
Pause ==
    /\ ui = "pause"
    /\ IF idx < Len(certificates)
       THEN /\ idx' = idx + 1
            /\ ui' = "update"
            /\ UNCHANGED toast
       ELSE /\ ui' = "done"
            /\ toast' = [title |-> "Certificates Sent",
                         description |-> "Successfully sent certificates to",
                         count |-> Len(certificates)]
            /\ UNCHANGED idx
    /\ UNCHANGED << hookVars, chunkVars, testVars, readVars, jobVars, certificates, dbStatus, inflight, responses, jobs, events >>

\* The delivery job of recipient j, attempt by attempt.
\* connect() returned: the session is open
JobConnected(j) ==
    /\ jobs[j].pc = "connecting"
    /\ jobs' = [jobs EXCEPT ![j].pc = "session"]
    /\ UNCHANGED << hookVars, chunkVars, testVars, readVars, jobVars, certificates, idx, ui, dbStatus, inflight, responses, toast,
                    events >>

\* connect() or sendEmail() threw: catch, disconnect, and the pause before the
\* next attempt unless this was the last one
JobAttemptFails(j) ==
    /\ jobs[j].pc \in {"connecting", "session"}
    /\ jobs' = [jobs EXCEPT ![j] =
                  IF LoopContinues(jobs[j].attempt) THEN [@ EXCEPT !.pc = "sleeping"]
                  ELSE [@ EXCEPT !.pc = "done", !.outcome = "failed"]]
    /\ UNCHANGED << hookVars, chunkVars, testVars, readVars, jobVars, certificates, idx, ui, dbStatus, inflight, responses, toast,
                    events >>

\* the pause is over: attempt++, connect()
JobRetry(j) ==
    /\ jobs[j].pc = "sleeping"
    /\ jobs' = [jobs EXCEPT ![j] = [@ EXCEPT !.pc = "connecting", !.attempt = @ + 1]]
    /\ UNCHANGED << hookVars, chunkVars, testVars, readVars, jobVars, certificates, idx, ui, dbStatus, inflight, responses, toast,
                    events >>

\* sendEmail() and disconnect() returned
JobDelivered(j) ==
    /\ jobs[j].pc = "session"
    /\ jobs' = [jobs EXCEPT ![j] = [@ EXCEPT !.pc = "done", !.outcome = "sent"]]
    /\ UNCHANGED << hookVars, chunkVars, testVars, readVars, jobVars, certificates, idx, ui, dbStatus, inflight, responses, toast,
                    events >>

NextBatch ==
    \/ Fetch
    \/ UpdateStatus
    \/ Invoke
    \/ \E j \in Recipients : Serve(j)
    \/ \E j \in Recipients : RequestFails(j)
    \/ Return
    \/ Pause
    \/ \E j \in Recipients : JobConnected(j)
    \/ \E j \in Recipients : JobAttemptFails(j)
    \/ \E j \in Recipients : JobRetry(j)
    \/ \E j \in Recipients : JobDelivered(j)

SpecBatch == InitBatch /\ [][NextBatch]_vars

----------------------------------------------------------------------------
(* SimpleSMTPClient.readResponse, read by read: the server's bytes arrive in
   chunks of any size *)

\* while (attempts < 20)
MaxReads == 20
\* new Uint8Array(4096)
BufferSize == 4096

\* where the pieces of s.split('\r\n') begin
SplitStarts(s) == {1} \cup {i + 2 : i \in {k \in 1..(Len(s) - 1) : s[k] = CR /\ s[k + 1] = LF}}

\* /^\d{3} /.test(line) for the piece that begins at i
IsFinalLineAt(s, i) ==
    /\ i + 3 <= Len(s)
    /\ s[i] \in Digit /\ s[i + 1] \in Digit /\ s[i + 2] \in Digit
    /\ s[i + 3] = " "

\* A variant of the test that takes a continuation line for the last line.
ResponseCompleteAnySeparator(s) ==
    \E i \in SplitStarts(s) :
        /\ i + 3 <= Len(s)
        /\ s[i] \in Digit /\ s[i + 1] \in Digit /\ s[i + 2] \in Digit
        /\ s[i + 3] \in {" ", "-"}

\* for (const line of lines) if (line && /^\d{3} /.test(line)) return ...
ResponseComplete(s) == \E i \in SplitStarts(s) : IsFinalLineAt(s, i)

\* a reply of one line, a reply of two lines, and a long reply whose last line
\* begins after more than MaxReads bytes
Filler(n) == [i \in 1..n |-> "a"]
ShortReply == << "2", "5", "0", " ", "b", CR, LF >>
TwoLineReply == << "2", "5", "0", "-", "a", CR, LF >> \o ShortReply
LongReply == << "2", "5", "0", "-" >> \o Filler(MaxReads - 2) \o CRLF \o ShortReply
ReplyTexts == {<< >>, ShortReply, TwoLineReply, LongReply}

\* after its reply the server closes the connection, sends nothing more, or
\* keeps sending bytes that end no line
Endings == {"eof", "stall", "flood"}

InitRead ==
    /\ request = ClientRequest
    /\ smtpPassword = << "s3cret" >>
    /\ response = NoResponse
    /\ pc = "read"
    /\ attempt = 0
    /\ outcome = "none"
    /\ conn = 1
    /\ opened = 1
    /\ closedConns = {}
    /\ peer = NoPeer
    /\ wire = << >>
    /\ replies = << >>
    /\ results = << >>
    /\ lastError = "none"
    /\ quitFailed = FALSE
    /\ raised = FALSE
    /\ sleeps = << >>
    /\ accepted = 0
    /\ logged = << >>
    /\ NoBatch
    /\ NoTest
    /\ NoHook
    /\ NoChunk
    /\ incoming \in [bytes : ReplyTexts, then : Endings]
    /\ received = << >>
    /\ attempts = 0
    /\ rd = "reading"

\* the rest of one round of the loop once chunk has been read: append it, and
\* return if a piece of the text is a last line, else attempts++ and the pause
Accumulate(chunk) ==
    /\ received' = received \o chunk
    /\ IF ResponseComplete(received \o chunk)
       THEN rd' = "returned" /\ UNCHANGED attempts
       ELSE rd' = "reading" /\ attempts' = attempts + 1

\* conn.read(buffer) returns n bytes of the reply
ReadBytes ==
    /\ rd = "reading"
    /\ attempts < MaxReads
    /\ incoming.bytes # << >>
    /\ \E n \in 1..Min(Len(incoming.bytes), BufferSize) :
           /\ Accumulate(SubSeq(incoming.bytes, 1, n))
           /\ incoming' = [incoming EXCEPT !.bytes = SubSeq(@, n + 1, Len(@))]
    /\ UNCHANGED << hookVars, chunkVars, testVars, jobVars, batchVars >>

\* conn.read(buffer) returns a byte that belongs to no reply
ReadFlood ==
    /\ rd = "reading"
    /\ attempts < MaxReads
    /\ incoming.bytes = << >>
    /\ incoming.then = "flood"
    /\ Accumulate(<< "x" >>)
    /\ UNCHANGED << hookVars, chunkVars, testVars, jobVars, batchVars, incoming >>

\* conn.read(buffer) returns null: break, return response.trim()
ReadEof ==
    /\ rd = "reading"
    /\ attempts < MaxReads
    /\ incoming.bytes = << >>
    /\ incoming.then = "eof"
    /\ rd' = "returned"
    /\ UNCHANGED << hookVars, chunkVars, testVars, jobVars, batchVars, incoming, received, attempts >>

\* the loop condition is false: return response.trim()
GiveUp ==
    /\ rd = "reading"
    /\ attempts >= MaxReads
    /\ rd' = "returned"
    /\ UNCHANGED << hookVars, chunkVars, testVars, jobVars, batchVars, incoming, received, attempts >>

\* Against a server that sends nothing more (stall) conn.read does not
\* return: no step of readResponse is enabled.
NextRead ==
    \/ ReadBytes
    \/ ReadFlood
    \/ ReadEof
    \/ GiveUp

SpecRead == InitRead /\ [][NextRead]_vars

\* awaited promises resolve whenever they can
FairSpecRead == SpecRead /\ WF_vars(NextRead)

----------------------------------------------------------------------------
(* The validation test endpoint: validatePdfBase64 and its handler *)

\* unnamed/part_005:82  (estimatedFileSize > 50 * 1024 * 1024)
MaxFileSize == 52428800

\* atob(s) throws: s without up to two trailing '=' when its length is a
\* multiple of 4 has a length of 1 modulo 4 or a character outside the alphabet
AtobThrows(s) ==
    LET n == Len(s)
        cut == IF n % 4 = 0 /\ n >= 1 /\ s[n] = "="
               THEN (IF n >= 2 /\ s[n - 1] = "=" THEN 2 ELSE 1)
               ELSE 0
    IN  (n - cut) % 4 = 1 \/ \E i \in 1..(n - cut) : s[i] \notin Base64Alphabet

\* base64Data.replace(/\s+/g, '').replace(/[^A-Za-z0-9+/=]/g, '') keeps c
IsCleanChar(c) == c \in Base64Alphabet \cup {"="}

\* A variant of EstimatedFileSize that does not subtract the padding
EstimatedFileSizeUnpadded(cleanedLength, paddingCount) == (cleanedLength * 3) \div 4

\* Math.floor((cleanedBase64.length * 3) / 4) - paddingCount
EstimatedFileSize(cleanedLength, paddingCount) ==
    (cleanedLength * 3) \div 4 - paddingCount

\* validatePdfBase64(dataUrl): the object it returns
ValidatePdfBase64(dataUrl) ==
    IF ~StartsWith(dataUrl, PdfPrefix)
    THEN [NoValidation EXCEPT !.errors = << "Invalid data URL format" >>]
    ELSE LET base64Data == SplitComma(dataUrl)[2]
             cleanedBase64 == SelectSeq(base64Data, IsCleanChar)
             paddingCount == Cardinality({i \in 1..Len(cleanedBase64) :
                                             cleanedBase64[i] = "="})
             estimatedFileSize == EstimatedFileSize(Len(cleanedBase64), paddingCount)
             testPortion == SubSeq(cleanedBase64, 1, Min(100, Len(cleanedBase64)))
             errors ==
                 (IF 100 * Len(cleanedBase64) < 95 * Len(base64Data)
                  THEN << "Significant data loss detected" >> ELSE << >>)
                 \o (IF ~IsBase64Shape(cleanedBase64)
                     THEN << "Invalid base64 characters found" >> ELSE << >>)
                 \o (IF paddingCount > 2
                     THEN << "Invalid base64 padding - too many = characters" >>
                     ELSE IF Len(cleanedBase64) % 4 # 0
                     THEN << "Invalid base64 length - not multiple of 4" >>
                     ELSE << >>)
                 \o (IF estimatedFileSize < MinDecodedSize
                     THEN << "Estimated file size too small" >> ELSE << >>)
                 \o (IF estimatedFileSize > MaxFileSize
                     THEN << "Estimated file size too large" >> ELSE << >>)
                 \o (IF AtobThrows(testPortion)
                     THEN << "Base64 decode test failed" >> ELSE << >>)
         IN  IF base64Data = << >>
             THEN [NoValidation EXCEPT !.errors = << "No base64 data found after comma" >>,
                                       !.metadata.hasValidHeader = TRUE]
             ELSE [ isValid |-> errors = << >>,
                    errors |-> errors,
                    metadata |-> [originalLength |-> Len(base64Data),
                                  cleanedLength |-> Len(cleanedBase64),
                                  estimatedFileSize |-> estimatedFileSize,
                                  hasValidHeader |-> TRUE,
                                  hasValidPadding |-> paddingCount <= 2
                                                      /\ Len(cleanedBase64) % 4 = 0] ]

\* base64 texts sent to the endpoint: texts around the least accepted size
\* with 0 to MaxPad + 1 pad characters; an accepted text (1000 bytes, "==")
\* with a foreign character added or put in place of another, with a line
\* feed, with the first characters of an encoded '%PDF-', with '=' inside; a
\* text of 999 bytes with a line feed; short texts
TestPayloads ==
    LET V == Payload(MinAcceptedLen, 2)
        W == Payload(MinAcceptedLen - 2, 0)
        Insert(s, i, c) == SubSeq(s, 1, i) \o << c >> \o SubSeq(s, i + 1, Len(s))
    IN  {Payload(n, pad) : n \in (MinAcceptedLen - 9)..(MinAcceptedLen + 2),
                           pad \in 0..(MaxPad + 1)}
        \cup {Insert(V, 700, "!"), Poke(V, 700, "!"), Insert(V, LineLen, LF),
              << "J", "V", "B", "E", "R", "i" >> \o SubSeq(V, 7, Len(V)),
              Poke(V, 50, "="), Insert(W, LineLen, LF)}
        \cup {<< "!", "!", "!", "!" >>, Poke(Payload(8, 0), 3, "!"), Payload(2, 2),
              Payload(5, 0), << >>}

\* requests to the endpoint; hasUrl is false when the body has no
\* certificate_url
TestRequests ==
    {[method |-> "POST", hasUrl |-> TRUE, certificate_url |-> PdfPrefix \o p] :
        p \in TestPayloads}
    \cup {[method |-> "POST", hasUrl |-> TRUE, certificate_url |-> u] :
            u \in {PngPrefix \o Payload(MinBase64Len, 0), << "a", "b" >>}}
    \cup {[method |-> "POST", hasUrl |-> FALSE, certificate_url |-> << >>]}
    \cup {[method |-> m, hasUrl |-> FALSE, certificate_url |-> << >>] :
            m \in {"OPTIONS", "GET"}}

InitTest ==
    /\ request = ClientRequest
    /\ smtpPassword = << "s3cret" >>
    /\ response = NoResponse
    /\ pc = "test"
    /\ attempt = 0
    /\ outcome = "none"
    /\ conn = 0
    /\ opened = 0
    /\ closedConns = {}
    /\ peer = NoPeer
    /\ wire = << >>
    /\ replies = << >>
    /\ results = << >>
    /\ lastError = "none"
    /\ quitFailed = FALSE
    /\ raised = FALSE
    /\ sleeps = << >>
    /\ accepted = 0
    /\ logged = << >>
    /\ NoBatch
    /\ NoRead
    /\ NoChunk
    /\ NoHook
    /\ testRequest \in TestRequests
    /\ validation = NoValidation
    /\ testResponse = [status |-> 0, body |-> "none"]

\* handler of the test endpoint.  Without certificate_url validatePdfBase64
\* throws on dataUrl.startsWith; without a comma in it generateTestMimeMessage
\* throws on base64Data.replace; both end in the catch block (500)
TestHandler ==
    /\ pc = "test"
    /\ testResponse.status = 0
    /\ LET called == testRequest.method = "POST" /\ testRequest.hasUrl
           v == ValidatePdfBase64(testRequest.certificate_url)
       IN  /\ validation' = IF called THEN v ELSE NoValidation
           /\ testResponse' =
                  IF testRequest.method = "OPTIONS" THEN [status |-> 200, body |-> "null"]
                  ELSE IF testRequest.method # "POST"
                  THEN [status |-> 405, body |-> "Method not allowed"]
                  ELSE IF ~testRequest.hasUrl
                          \/ Len(SplitComma(testRequest.certificate_url)) < 2
                  THEN [status |-> 500, body |-> "Test failed"]
                  ELSE [status |-> 200, body |-> IF v.isValid THEN "PASS" ELSE "FAIL"]
    /\ UNCHANGED << jobVars, batchVars, readVars, chunkVars, hookVars, testRequest >>

NextTest == TestHandler

SpecTest == InitTest /\ [][NextTest]_vars

----------------------------------------------------------------------------
(* Writing a message in chunks: sendEmailContent of TitanSMTPClient and of  *)
(* ParticipantSMTPClient (unnamed/part_007:343-362, 1463-1481), which are   *)
(* the same code.  The chunk size is 65,536 UTF-16 code units, so a text is *)
(* kept here as a sequence of runs [u |-> code unit, n |-> repetitions]     *)
(* and a byte string as a sequence of runs [u |-> bytes of one character,   *)
(* n |-> repetitions].                                                      *)

\* part_007:344  (64 * 1024)
chunkSize == 65536
\* chunks of the longest message written
MaxChunks == 3

\* U+1F393, which a JavaScript string holds as two code units
HighSurrogate == "D83C"
LowSurrogate == "DF93"

\* content.length
RECURSIVE TextLen(_)
TextLen(t) == IF t = << >> THEN 0 ELSE t[1].n + TextLen(Tail(t))

\* adjacent runs of the same unit are one run
RECURSIVE Merge(_)
Merge(t) ==
    IF Len(t) < 2 THEN t
    ELSE IF t[1].u = t[2].u
    THEN Merge(<< [u |-> t[1].u, n |-> t[1].n + t[2].n] >> \o SubSeq(t, 3, Len(t)))
    ELSE << t[1] >> \o Merge(Tail(t))

\* String.prototype.slice(from, to), offsets counted from 0 in code units
Slice(t, from, to) ==
    LET startOf(k) == TextLen(SubSeq(t, 1, k - 1))
        lo(k) == Max(startOf(k), from)
        hi(k) == Min(startOf(k) + t[k].n, to)
        piece(k) == IF hi(k) > lo(k) THEN << [u |-> t[k].u, n |-> hi(k) - lo(k)] >>
                    ELSE << >>
    IN  Flatten([k \in 1..Len(t) |-> piece(k)])

\* TextEncoder.encode: UTF-8.  A high surrogate followed by a low surrogate
\* is one character of four bytes; a surrogate without its partner is
\* replaced by U+FFFD (EF BF BD)
Encode(t) ==
    LET lone == << "EF", "BF", "BD" >>
        paired(k) == IF t[k].u = HighSurrogate
                     THEN k < Len(t) /\ t[k + 1].u = LowSurrogate
                     ELSE k > 1 /\ t[k - 1].u = HighSurrogate
        loners(k) == IF paired(k) THEN t[k].n - 1 ELSE t[k].n
        bytes(k) ==
            IF t[k].u \in {HighSurrogate, LowSurrogate}
            THEN (IF t[k].u = LowSurrogate /\ paired(k)
                  THEN << [u |-> << "F0", "9F", "8E", "93" >>, n |-> 1] >> ELSE << >>)
                 \o (IF loners(k) > 0 THEN << [u |-> lone, n |-> loners(k)] >> ELSE << >>)
            ELSE IF t[k].u \in NonAscii
            THEN << [u |-> << "C3", "A9" >>, n |-> t[k].n] >>
            ELSE << [u |-> << t[k].u >>, n |-> t[k].n] >>
    IN  Merge(Flatten([k \in 1..Len(t) |-> bytes(k)]))

\* the messages written: plain text whose letter changes every 40,000
\* characters, of every length around a multiple of the chunk size, and the
\* same text with one character that is not ASCII around a chunk boundary
ChunkContents ==
    LET period == 40000
        letters == << "a", "b", "c", "d", "e" >>
        plain(len) ==
            [k \in 1..((len + period - 1) \div period) |->
                [u |-> letters[((k - 1) % 5) + 1],
                 n |-> Min(period, len - (k - 1) * period)]]
        lengths == {0, 1, chunkSize - 1}
                   \cup UNION {{m * chunkSize, m * chunkSize + 1, m * chunkSize + period} :
                                m \in 1..MaxChunks}
        special == {<< [u |-> "U+00E9", n |-> 1] >>,
                    << [u |-> HighSurrogate, n |-> 1], [u |-> LowSurrogate, n |-> 1] >>}
        with(t, at, sp) ==
            Slice(t, 0, at) \o sp \o Slice(t, at + TextLen(sp), TextLen(t))
    IN  {plain(len) : len \in lengths}
        \cup {with(plain(len), at, sp) :
                  len \in {m * chunkSize + 1 : m \in 1..MaxChunks},
                  at \in {chunkSize - 2, chunkSize - 1, chunkSize},
                  sp \in special}

InitChunk ==
    /\ request = ClientRequest
    /\ smtpPassword = << "s3cret" >>
    /\ response = NoResponse
    /\ pc = "DATA"
    /\ attempt = 0
    /\ outcome = "none"
    /\ conn = 1
    /\ opened = 1
    /\ closedConns = {}
    /\ peer = NoPeer
    /\ wire = << >>
    /\ replies = << >>
    /\ results = << >>
    /\ lastError = "none"
    /\ quitFailed = FALSE
    /\ raised = FALSE
    /\ sleeps = << >>
    /\ accepted = 0
    /\ logged = << >>
    /\ NoBatch
    /\ NoRead
    /\ NoTest
    /\ NoHook
    /\ content \in ChunkContents
    /\ sliceStart = 0
    /\ written = << >>
    /\ sending = "sendEmailContent"

\* else branch: await this.conn!.write(this.encoder.encode(content))
WriteWhole ==
    /\ sending = "sendEmailContent"
    /\ ~(TextLen(content) > chunkSize)
    /\ written' = << Encode(content) >>
    /\ sending' = "returned"
    /\ UNCHANGED << hookVars, jobVars, batchVars, readVars, testVars, content, sliceStart >>

\* one round of for (let i = 0; i < totalSize; i += chunkSize); the pause
\* between two chunks changes nothing
WriteChunk ==
    /\ \/ sending = "sendEmailContent" /\ TextLen(content) > chunkSize
       \/ sending = "loop"
    /\ sliceStart < TextLen(content)
    /\ LET chunk == Slice(content, sliceStart, sliceStart + chunkSize)
       IN  written' = Append(written, Encode(chunk))
    /\ sliceStart' = sliceStart + chunkSize
    /\ sending' = IF sliceStart + chunkSize < TextLen(content) THEN "loop" ELSE "returned"
    /\ UNCHANGED << hookVars, jobVars, batchVars, readVars, testVars, content >>

NextChunk == WriteWhole \/ WriteChunk

SpecChunk == InitChunk /\ [][NextChunk]_vars

----------------------------------------------------------------------------
(* The webhook function (supabase/functions/participant-webhook/index.ts)  *)
(* and table webhook_registrations.  Each call is served by its own         *)
(* invocation of the handler; invocations run concurrently and meet in the  *)
(* table, one statement at a time.  The database answers every statement:   *)
(* a statement fails only when it breaks a constraint of the table.         *)

\* calls served at the same time
MaxCallers == 2

Callers == 1..MaxCallers

\* the requests: a preflight, a GET, a POST without registration_id, and
\* POSTs for registrations r1 and r2
HookRequests ==
    { [method |-> "OPTIONS", registration_id |-> "", participant_name |-> ""],
      [method |-> "GET", registration_id |-> "", participant_name |-> ""],
      [method |-> "POST", registration_id |-> "", participant_name |-> "Ann"],
      [method |-> "POST", registration_id |-> "r1", participant_name |-> "Ann"],
      [method |-> "POST", registration_id |-> "r1", participant_name |-> "Bob"],
      [method |-> "POST", registration_id |-> "r2", participant_name |-> "Ann"] }

InitHook ==
    /\ request = ClientRequest
    /\ smtpPassword = << "s3cret" >>
    /\ response = NoResponse
    /\ pc = "webhook"
    /\ attempt = 0
    /\ outcome = "none"
    /\ conn = 0
    /\ opened = 0
    /\ closedConns = {}
    /\ peer = NoPeer
    /\ wire = << >>
    /\ replies = << >>
    /\ results = << >>
    /\ lastError = "none"
    /\ quitFailed = FALSE
    /\ raised = FALSE
    /\ sleeps = << >>
    /\ accepted = 0
    /\ logged = << >>
    /\ NoBatch
    /\ NoRead
    /\ NoTest
    /\ NoChunk
    /\ registrations \in { {}, {[id |-> 1, registration_id |-> "r1",
                                 participant_name |-> "Zed"]} }
    /\ hookCalls \in [Callers -> [at : {"received"}, body : HookRequests,
                                   existing : {0}, response : {NoResponse}]]

\* the handler up to the answer of its first statement: the method and the
\* required fields are examined, then select('id').eq('registration_id',
\* ...).maybeSingle() is run (existing = 0: no row)
HookSelect(c) ==
    /\ hookCalls[c].at = "received"
    /\ LET body == hookCalls[c].body
           found == {r \in registrations : r.registration_id = body.registration_id}
       IN  hookCalls' = [hookCalls EXCEPT ![c] =
               IF body.method = "OPTIONS"
               THEN [@ EXCEPT !.at = "returned", !.response = [status |-> 200, body |-> "null"]]
               ELSE IF body.method # "POST"
               THEN [@ EXCEPT !.at = "returned",
                              !.response = [status |-> 405, body |-> "Method not allowed"]]
               ELSE IF body.registration_id = "" \/ body.participant_name = ""
               THEN [@ EXCEPT !.at = "returned",
                              !.response = [status |-> 400, body |-> "required"]]
               ELSE IF found # {}
               THEN [@ EXCEPT !.at = "update", !.existing = (CHOOSE r \in found : TRUE).id]
               ELSE [@ EXCEPT !.at = "insert"]]
    /\ UNCHANGED << jobVars, batchVars, readVars, testVars, chunkVars, registrations >>

\* existingRegistration: update(...).eq('id', existingRegistration.id)
\* .select().single(), then the 200 response with action 'updated'
HookUpdate(c) ==
    /\ hookCalls[c].at = "update"
    /\ LET rows == {r \in registrations : r.id = hookCalls[c].existing}
       IN  IF Cardinality(rows) = 1
           THEN /\ registrations' =
                       (registrations \ rows)
                           \cup {[r EXCEPT !.participant_name =
                                               hookCalls[c].body.participant_name] : r \in rows}
                /\ hookCalls' = [hookCalls EXCEPT ![c].at = "returned",
                                   ![c].response = [status |-> 200, body |-> "updated"]]
           ELSE /\ hookCalls' = [hookCalls EXCEPT ![c].at = "returned",
                                   ![c].response = [status |-> 500,
                                                    body |-> "Failed to update registration"]]
                /\ UNCHANGED registrations
    /\ UNCHANGED << jobVars, batchVars, readVars, testVars, chunkVars >>

\* no existingRegistration: insert(...).select().single(); registration_id
\* is UNIQUE, so the insert fails when a row with it exists by now
HookInsert(c) ==
    /\ hookCalls[c].at = "insert"
    /\ LET body == hookCalls[c].body
       IN  IF \E r \in registrations : r.registration_id = body.registration_id
           THEN /\ hookCalls' = [hookCalls EXCEPT ![c].at = "returned",
                                   ![c].response = [status |-> 500,
                                                    body |-> "Failed to create registration"]]
                /\ UNCHANGED registrations
           ELSE /\ registrations' =
                       registrations \cup {[id |-> Cardinality(registrations) + 1,
                                            registration_id |-> body.registration_id,
                                            participant_name |-> body.participant_name]}
                /\ hookCalls' = [hookCalls EXCEPT ![c].at = "returned",
                                   ![c].response = [status |-> 200, body |-> "created"]]
    /\ UNCHANGED << jobVars, batchVars, readVars, testVars, chunkVars >>

NextHook ==
    \/ \E c \in Callers : HookSelect(c)
    \/ \E c \in Callers : HookUpdate(c)
    \/ \E c \in Callers : HookInsert(c)

SpecHook == InitHook /\ [][NextHook]_vars

----------------------------------------------------------------------------
(* Reading a message the way a MIME reader does *)

IsCrlfAt(m, i) == i >= 1 /\ i < Len(m) /\ m[i] = CR /\ m[i + 1] = LF
LineStarts(m) == {i \in 1..Len(m) : i = 1 \/ IsCrlfAt(m, i - 2)}

\* the boundary parameter of the multipart Content-Type header
BoundaryParam(m) ==
    LET c == SetMin({i \in LineStarts(m) :
                        m[i] = "Content-Type: multipart/mixed; boundary="})
        q == SetMin({j \in (c + 2)..Len(m) : m[j] = "\""})
    IN  SubSeq(m, c + 2, q - 1)

\* the lines that begin with "--" and the boundary
Delimiters(m) ==
    LET b == BoundaryParam(m)
    IN  {i \in LineStarts(m) : /\ i + Len(b) <= Len(m)
                               /\ m[i] = "--"
                               /\ SubSeq(m, i + 1, i + Len(b)) = b}

\* the body of the part whose headers hold Content-Disposition: attachment:
\* from the line after the part's first empty line up to the line break that
\* precedes the next delimiter
AttachmentBody(m) ==
    LET h == SetMin({i \in LineStarts(m) :
                        m[i] = "Content-Disposition: attachment; filename="})
        blank == SetMin({i \in h..Len(m) : IsCrlfAt(m, i) /\ IsCrlfAt(m, i + 2)})
        next == SetMin({d \in Delimiters(m) : d > h})
    IN  SubSeq(m, blank + 4, next - 3)

\* s without its CR LF pairs (a CR or LF outside a pair is kept)
RemoveCrlf(s) ==
    LET paired == {i \in 1..Len(s) : IsCrlfAt(s, i) \/ IsCrlfAt(s, i - 1)}
        kept == [i \in 1..Len(s) |-> IF i \in paired THEN "" ELSE s[i]]
        IsKept(c) == c # ""
    IN  SelectSeq(kept, IsKept)

\* the message written by sendEmail on the current connection, if any
SentMessage == wire[Len(Steps) + 1]
MessageWritten == Len(wire) > Len(Steps) /\ Head(SentMessage) = "Message-ID: "

----------------------------------------------------------------------------
(* Properties *)

\* C1: when sendEmail has written the message built by buildMimeMessage, the
\* body of its attachment part with the CRLF line breaks removed is the base64
\* payload of the request, character for character.
AttachmentIsPayload ==
    (pc = "FINAL" /\ MessageWritten) => RemoveCrlf(AttachmentBody(SentMessage)) = PdfBase64Of(request)

\* a message was written for a payload that ends in "==" and whose last line
\* holds one character
AttachmentIsPayloadWitness ==
    /\ pc = "FINAL"
    /\ MessageWritten
    /\ Len(PdfBase64Of(request)) % LineLen = 1
    /\ SubSeq(PdfBase64Of(request), Len(PdfBase64Of(request)) - 1,
              Len(PdfBase64Of(request))) = << "=", "=" >>

\* the texts a server sends when it follows a script to its end
TextsOf(script) == [i \in 1..Len(script) |-> script[i].text]

Line(tokens) == tokens \o CRLF
QuitLine == Line(<< "QUIT" >>)

\* what sendEmail writes before the message for this request
ExpectedCommands ==
    << Line(<< "EHLO", " ", "smtp.titan.email" >>),
       Line(<< "AUTH", " ", "LOGIN" >>),
       Line(<< "btoa(", "support@academicdigital.space", ")" >>),
       Line(<< "btoa(" >> \o smtpPassword \o << ")" >>),
       Line(<< "MAIL", " ", "FROM:<", "support@academicdigital.space", ">" >>),
       Line(<< "RCPT", " ", "TO:<" >> \o request.to \o << ">" >>),
       Line(<< "DATA" >>) >>

\* the last attempt recorded is a success
LastAttemptOk == results # << >> /\ results[Len(results)] = "ok"

\* C2 (as stated): a connection on which the server replied 220, 250, 334, 235,
\* 250, 250, 354, 250, 221 ended in a successful send.
NineRepliesSucceed ==
    replies = TextsOf(NineScript) => LastAttemptOk

\* C2 (amended): a connection on which the server replied 220, 250, 334, 334,
\* 235, 250, 250, 354, 250, 221 ended in a successful send, and the client wrote
\* exactly EHLO, AUTH LOGIN, the user name, the password, MAIL FROM, RCPT TO,
\* DATA, the message, the terminator and QUIT, once each and in this order.
TenRepliesSucceed ==
    replies = TextsOf(HappyScript) =>
        /\ LastAttemptOk
        /\ outcome = "sent"
        /\ accepted = 1
        /\ Len(wire) = Len(ExpectedCommands) + 3
        /\ SubSeq(wire, 1, Len(ExpectedCommands)) = ExpectedCommands
        /\ MessageWritten
        /\ wire[Len(wire) - 1] = << CR, LF, ".", CR, LF >>
        /\ wire[Len(wire)] = QuitLine

\* the job has delivered after a complete ten-reply dialogue
TenRepliesSucceedWitness ==
    replies = TextsOf(HappyScript) /\ outcome = "sent" /\ pc = "done"

\* C3: after the server answered RCPT TO with 550 the attempt has failed and
\* the client has written nothing more on the connection but QUIT.
RcptRejectionEndsSession ==
    ( /\ lastError # "transport_error"
      /\ Len(replies) > Len(ExpectedCommands) - 1
      /\ StartsWith(replies[Len(ExpectedCommands)], R550) ) =>
        /\ pc \notin {"DATA", "BODY", "FINAL", "sent"}
        /\ \A i \in Len(ExpectedCommands)..Len(wire) : wire[i] = QuitLine

\* C4: a job never makes more than maxAttempts attempts, only the last attempt
\* made can be a success, a success ends the job with the outcome "sent", and
\* the outcome "failed" is reached after exactly maxAttempts failed attempts.
AttemptsUntilSuccessOrThree ==
    /\ attempt <= maxAttempts
    /\ Len(results) <= attempt
    /\ \A i \in 1..(Len(results) - 1) : results[i] = "error"
    /\ LastAttemptOk => pc \in {"sent", "done"} /\ Len(results) = attempt
    /\ (pc = "done" /\ LastAttemptOk) => outcome = "sent"
    /\ outcome = "sent" => LastAttemptOk
    /\ outcome = "failed" =>
           attempt = maxAttempts /\ results = [i \in 1..maxAttempts |-> "error"]
    /\ (pc = "done" /\ attempt > 0) => outcome \in {"sent", "failed"}

\* two failed attempts, then a successful third
AttemptsUntilSuccessOrThreeWitness ==
    outcome = "sent" /\ results = << "error", "error", "ok" >> /\ attempt = 3

Queued == [status |-> 200, body |-> "Certificate email queued for sending"]

\* a POST whose body parses and carries a recipient address, a participant
\* name and a PDF data URL with at least MinBase64Len characters of content
WellFormed(req) ==
    /\ req.method = "POST" /\ req.json /\ req.missing = {}
    /\ req.participant_name # << >>
    /\ EmailRegex(req.to)
    /\ StartsWith(req.certificate_url, PdfPrefix)
    /\ Len(req.certificate_url) >= Len(PdfPrefix) + MinBase64Len

\* C5: the response to a well-formed request is the 200 "queued"
\* acknowledgment; it is given before any connection attempt, and no later
\* step of the delivery changes it.
QueuedWhateverTheDelivery ==
    /\ [](WellFormed(request) /\ pc # "idle" => response = Queued)
    /\ [](response = NoResponse => opened = 0 /\ wire = << >> /\ replies = << >>)
    /\ [][response # NoResponse => response' = response]_vars

\* the request was acknowledged and every attempt of its delivery failed
QueuedWhateverTheDeliveryWitness ==
    WellFormed(request) /\ response = Queued /\ outcome = "failed"

\* to, participant_name or certificate_url is absent or empty, to is not an
\* address, or certificate_url is not a PDF data URL
Malformed(req) ==
    \/ \E f \in Fields : f \in req.missing \/ req[f] = << >>
    \/ ~EmailRegex(req.to)
    \/ ~StartsWith(req.certificate_url, PdfPrefix)

\* C6: a POST whose parsed body is malformed is answered with status 400, and
\* no delivery job is started for it.
MalformedGets400 ==
    (request.method = "POST" /\ request.json /\ Malformed(request) /\ pc # "idle") =>
        response.status = 400 /\ pc = "nojob"

\* the base64 content of the request holds a character outside the base64
\* alphabet, or its size estimate is below MinDecodedSize
PayloadFailsValidation(req) ==
    LET p == PdfBase64Of(req)
    IN  \/ \E i \in 1..Len(p) : p[i] \notin Base64Alphabet \cup {"="}
        \/ 3 * Len(p) < 4 * MinDecodedSize

JobStarted == pc \notin {"idle", "nojob"}

\* C7: a job whose payload fails validation (the secret being present) ends
\* at once with the outcome "validation_failed"; a job with that outcome has
\* made no connection attempt and no pause, and takes no further step.
InvalidPayloadNeverConnects ==
    /\ [][ (pc = "idle" /\ pc' # "nojob" /\ smtpPassword # << >>
               /\ PayloadFailsValidation(request))
            => (pc' = "done" /\ outcome' = "validation_failed") ]_vars
    /\ [](outcome = "validation_failed" =>
             /\ pc = "done"
             /\ attempt = 0 /\ opened = 0 /\ sleeps = << >> /\ results = << >>)
    /\ [][ ~(pc = "done") ]_vars

\* a job ended on a payload that holds a '!'
InvalidPayloadNeverConnectsWitness ==
    /\ pc = "done" /\ outcome = "validation_failed"
    /\ \E i \in 1..Len(PdfBase64Of(request)) : PdfBase64Of(request)[i] = "!"

\* C8: a job started while SMTP_PASSWORD is absent makes no connection
\* attempt, pauses for no retry, and ends with the outcome "config_error".
MissingSecretNeverConnects ==
    (JobStarted /\ smtpPassword = << >>) =>
        /\ pc = "done" /\ outcome = "config_error"
        /\ attempt = 0 /\ opened = 0 /\ sleeps = << >> /\ results = << >>

\* a job ended for want of the secret
MissingSecretNeverConnectsWitness ==
    pc = "done" /\ outcome = "config_error" /\ smtpPassword = << >>

\* the reply code sendEmail would have to read before its k-th write: 334
\* before the user name and the password, 235 before MAIL FROM, 250 before
\* RCPT TO and DATA, 354 before the message
CodeBefore(k) ==
    CASE k \in {3, 4} -> R334
      [] k = 5 -> R235
      [] k \in {6, 7} -> R250
      [] k = 8 -> R354

\* C9: each write of sendEmail after AUTH LOGIN follows a reply that starts
\* with the code expected for the previous command.
AdvancesOnExpectedReply ==
    \A k \in 3..(Len(ExpectedCommands) + 1) :
        (Len(wire) >= k /\ wire[k] # QuitLine) => StartsWith(replies[k], CodeBefore(k))

\* C10: every disconnect() returns normally and leaves the client without a
\* connection, the connection it held being closed; called on a client that
\* holds no connection it writes nothing and closes nothing.
DisconnectIsSafe ==
    [][ (pc = "sent" \/ pc = "catch") =>
            ( /\ conn' = 0
              /\ ~raised'
              /\ conn # 0 => conn \in closedConns'
              /\ conn = 0 => ( /\ wire' = wire /\ replies' = replies
                               /\ closedConns' = closedConns /\ peer' = peer ) )
      ]_vars

\* a command failed in mid-transaction, QUIT failed as well, and the client
\* was left without a connection, every connection it opened being closed
DisconnectIsSafeWitness ==
    /\ pc = "loop" /\ conn = 0 /\ ~raised
    /\ quitFailed /\ lastError = "transport_error" /\ Len(wire) > 3
    /\ closedConns = 1..opened

\* C11: a call that ends on a client that holds no connection, other than a
\* refused connect(), is a sendEmail() call; it throws the not-connected error
\* at once: nothing is written, nothing is read, no connection is opened or
\* closed.
SendEmailNeedsConnection ==
    [][ (BetweenCalls /\ conn = 0 /\ results' # results
           /\ ~(lastError' = "connect_failed"))
        => ( /\ lastError' = "not_connected"
             /\ pc' = "catch"
             /\ results' = Append(results, "error")
             /\ wire' = wire /\ replies' = replies /\ peer' = peer
             /\ conn' = 0 /\ opened' = opened /\ closedConns' = closedConns
             /\ accepted' = accepted ) ]_vars

\* sendEmail() was refused on a client that had connected and disconnected
SendEmailNeedsConnectionWitness ==
    lastError = "not_connected" /\ conn = 0 /\ closedConns # {} /\ pc = "catch"

InSendEmail == pc \in {Steps[i] : i \in 1..Len(Steps)} \cup {"BODY", "FINAL", "sent"}

\* C12: when the first response read on a connection does not begin with 220,
\* connect() has thrown (the attempt is recorded as failed with the error
\* "connection_rejected") and nothing but QUIT is written on that connection;
\* sendEmail runs only on a connection whose greeting began with 220.
GreetingMustBe220 ==
    /\ (replies # << >> /\ ~StartsWith(replies[1], R220)) =>
           /\ lastError = "connection_rejected"
           /\ pc \in {"catch", "loop", "done"}
           /\ Len(results) = attempt /\ results[attempt] = "error"
           /\ \A i \in 1..Len(wire) : wire[i] = QuitLine
    /\ InSendEmail => (replies # << >> /\ StartsWith(replies[1], R220))

\* a greeting 550 ended the attempt, and QUIT alone was written
GreetingMustBe220Witness ==
    /\ lastError = "connection_rejected"
    /\ replies # << >> /\ StartsWith(replies[1], R550)
    /\ wire = << QuitLine >>

\* the DATA commands and the end-of-data terminators written on the connection
DataTransactions == {i \in 1..Len(wire) : wire[i] = Line(<< "DATA" >>)}
MessagesTransmitted == {i \in 1..Len(wire) : wire[i] = Terminator}

\* C13: the connection the client holds is the one opened last, it is not
\* closed, and every connection opened before it is closed; no more connections
\* are opened than attempts made; between attempts and at the end of the job no
\* connection is held; at most one DATA command and one message are written on
\* any connection.
OneConnectionPerAttempt ==
    /\ conn \in {0, opened}
    /\ closedConns = (1..opened) \ {conn}
    /\ opened <= attempt
    /\ pc \in {"loop", "done", "nojob", "idle"} => conn = 0
    /\ Cardinality(DataTransactions) <= 1
    /\ Cardinality(MessagesTransmitted) <= 1
    /\ accepted <= 1

\* the third attempt transmitted its message on the third connection, the two
\* earlier connections being closed
OneConnectionPerAttemptWitness ==
    /\ attempt = 3 /\ conn = 3 /\ closedConns = {1, 2}
    /\ pc = "FINAL" /\ Cardinality(MessagesTransmitted) = 1

\* the server answered MAIL FROM, RCPT TO, DATA or the message of the current
\* connection with a reply that starts with code
EnvelopeOrDataAnswered(code) ==
    \/ \E i \in 6..8 : /\ Len(replies) >= i /\ Len(wire) >= i - 1
                       /\ wire[i - 1] # QuitLine
                       /\ StartsWith(replies[i], code)
    \/ /\ Len(replies) >= 9 /\ Len(wire) >= 9
       /\ wire[9] = Terminator
       /\ StartsWith(replies[9], code)

\* C14: after a 5xx answer to an envelope or data step no further attempt is
\* made and the job does not end as sent; after a failed attempt with a 4xx
\* answer another attempt follows while fewer than maxAttempts have been made.
PermanentOn5xxRetryOn4xx ==
    [][ ( /\ EnvelopeOrDataAnswered(R550) => attempt' = attempt
          /\ (EnvelopeOrDataAnswered(R550) /\ pc' = "done") => outcome' # "sent"
          /\ ( /\ EnvelopeOrDataAnswered(R450) /\ ~EnvelopeOrDataAnswered(R550)
               /\ pc = "loop" /\ attempt < maxAttempts ) => attempt' = attempt + 1 )
      ]_vars

\* every attempt made so far failed on a malformed or unexpected response
OnlyProtocolErrors ==
    /\ \A i \in 1..Len(results) : results[i] = "error"
    /\ lastError \in {"none", "connection_rejected", "send_failed"}

\* C15: a job whose every attempt fails on a malformed or unexpected response
\* makes no third attempt, and ends as failed after exactly two attempts.
ProtocolErrorRetriedOnce ==
    OnlyProtocolErrors =>
        /\ attempt <= 2
        /\ (pc = "done" /\ outcome = "failed") => attempt = 2

\* C16: the n-th pause of a job lasts n seconds, and a job pauses after each
\* failed attempt but the last: never more than maxAttempts - 1 times.
DelayGrowsLinearly ==
    /\ \A n \in 1..Len(sleeps) : sleeps[n] = n * 1000
    /\ Len(sleeps) <= maxAttempts - 1
    /\ (pc = "loop" /\ attempt >= 1) => Len(sleeps) = Min(attempt, maxAttempts - 1)

\* the recipients whose delivery job is connecting, in a session, or pausing
\* before its next attempt
JobsRunning == {j \in Recipients : jobs[j].pc \in {"connecting", "session", "sleeping"}}
SessionsOpen == {j \in Recipients : jobs[j].pc = "session"}

\* C17: at most one delivery job of the batch is running, and at most one SMTP
\* session of the batch is open.
OneJobAtATime ==
    /\ Cardinality(JobsRunning) <= 1
    /\ Cardinality(SessionsOpen) <= 1

Requested(j) == \E n \in 1..Len(events) : events[n] = [what |-> "request", of |-> j]
SendFailed(j) == InvokeError(responses[j]) \/ jobs[j].outcome = "failed"

\* C18: the loop over the batch ends early only when a status update fails,
\* never because a send request was rejected or a delivery job gave up: the
\* return of a request, whatever it returned, leads to the pause and the next
\* recipient; a step of a delivery job leaves the loop where it is; every
\* recipient before the current one was requested, and all were when the loop
\* has finished.
SendFailureIsIsolated ==
    /\ [](ui = "aborted" => toast.description = "Failed to update certificate for")
    /\ [](\A j \in Recipients : (j < idx \/ ui = "done") => Requested(j))
    /\ [][ ((ui = "await" /\ ui' # ui) => ui' = "pause") ]_vars
    /\ [][ ((ui = "pause" /\ ui' # ui /\ idx < Len(certificates))
               => (ui' = "update" /\ idx' = idx + 1)) ]_vars
    /\ [][ ((\E j \in Recipients : jobs'[j] # jobs[j] /\ jobs'[j].outcome = "failed")
               => (ui' = ui /\ idx' = idx /\ toast' = toast)) ]_vars

\* the request for the first recipient was rejected, the job of the second
\* gave up after its last attempt, and the third was requested and delivered
SendFailureIsIsolatedWitness ==
    /\ Len(certificates) = 3 /\ ui = "done"
    /\ InvokeError(responses[1])
    /\ jobs[2].outcome = "failed" /\ jobs[2].attempt = maxAttempts
    /\ Requested(3) /\ jobs[3].outcome = "sent"

\* the recipients whose send request the function accepted, and those whose
\* request failed
RequestSucceeded == {j \in Recipients : ~InvokeError(responses[j])}
RequestFailed == {j \in Recipients : InvokeError(responses[j])}

\* C19: when the batch has finished, the number of successes reported is the
\* number of recipients whose send succeeded, and a batch in which a send
\* failed is not reported as sent to all.
ReportCountsSuccesses ==
    ui = "done" =>
        /\ toast.count = Cardinality(RequestSucceeded)
        /\ RequestFailed # {} => toast.count < Len(certificates)

RequestEvent(j) == [what |-> "request", of |-> j]
AttemptEvent(j) == [what |-> "attempt", of |-> j]
Position(e) == SetMin({n \in 1..Len(events) : events[n] = e})
Happened(e) == \E n \in 1..Len(events) : events[n] = e

ReadResponseReturns == <>(rd = "returned")

\* the server has closed the connection and every byte it sent has been read
StreamEnded == incoming.bytes = << >> /\ incoming.then = "eof"

\* some line of s (s itself from its start, or what follows a CR LF) begins
\* with three digits and a space
HasLastLine(s) ==
    \E i \in 1..(Len(s) - 3) :
        /\ i = 1 \/ (i >= 3 /\ s[i - 2] = CR /\ s[i - 1] = LF)
        /\ \A k \in i..(i + 2) : s[k] \in Digit
        /\ s[i + 3] = " "

----------------------------------------------------------------------------
(* C23 *)

\* the account credentials in the forms the claim names
CredentialForms ==
    { Username, smtpPassword, Btoa(Username), Btoa(smtpPassword) }

\* C23: no line logged during an SMTP session contains the username or the
\* password, in plaintext or in base64 form
NoCredentialInLog ==
    smtpPassword # << >> =>
        \A i \in 1..Len(logged) : \A c \in CredentialForms : ~Includes(logged[i], c)

\* the weaker statement: the password, and the base64 form of either
\* credential, are in no logged line
NoSecretInLog ==
    smtpPassword # << >> =>
        \A i \in 1..Len(logged) :
            \A c \in CredentialForms \ {Username} : ~Includes(logged[i], c)

----------------------------------------------------------------------------
(* C24 *)

\* every line of b, the CRLF that ends it not counted, holds at most n characters
LinesWithin(b, n) ==
    \A i \in LineStarts(b) : \E j \in i..(i + n) : j = Len(b) + 1 \/ IsCrlfAt(b, j)

----------------------------------------------------------------------------
(* C25 *)

\* the HTML body handed to buildMimeMessage, before it is encoded
HtmlOf(req) == GenerateEmailTemplate(req.participant_name, req.message,
                                     req.certificate_number)

----------------------------------------------------------------------------
(* C26 *)

\* C26: when the message has been written, the request's base64 text passed
\* the job's validation, the cleaning of buildMimeMessage leaves that text as
\* it is, and the attachment body of the message, its line breaks removed, is
\* that cleaned text: what was validated is what is sent.
TransmittedAsValidated ==
    (pc = "FINAL" /\ MessageWritten) =>
        /\ JobValidation(request, smtpPassword) = "ok"
        /\ LET cleaned == CleanBase64(PdfBase64Of(request))
           IN  /\ cleaned = PdfBase64Of(request)
               /\ RemoveCrlf(AttachmentBody(SentMessage)) = cleaned

\* a message was written for a validated payload that ends in one '=' and
\* fills its last line
TransmittedAsValidatedWitness ==
    /\ pc = "FINAL"
    /\ MessageWritten
    /\ JobValidation(request, smtpPassword) = "ok"
    /\ Len(PdfBase64Of(request)) % LineLen = 0
    /\ PdfBase64Of(request)[Len(PdfBase64Of(request))] = "="
    /\ PdfBase64Of(request)[Len(PdfBase64Of(request)) - 1] # "="

----------------------------------------------------------------------------
(* C27, C28: the verdict of validatePdfBase64 *)

\* the endpoint called validatePdfBase64 on a data URL with the PDF prefix
\* and a payload after it
Validated ==
    /\ testResponse.status # 0
    /\ testRequest.method = "POST"
    /\ testRequest.hasUrl
    /\ StartsWith(testRequest.certificate_url, PdfPrefix)
    /\ SplitComma(testRequest.certificate_url)[2] # << >>

\* the payload of the request: the text after the comma
TestPayload == SplitComma(testRequest.certificate_url)[2]

\* s holds a character that is neither of the base64 alphabet, nor '=', nor
\* whitespace
HasForeignCharacter(s) ==
    \E i \in 1..Len(s) : s[i] \notin Base64Alphabet \cup {"="} \cup Whitespace

Reported(e) == \E i \in 1..Len(validation.errors) : validation.errors[i] = e

\* C27: a payload with a character outside the base64 alphabet is answered
\* without a crash, with a verdict that is not valid and carries the format
\* error.
ForeignCharactersRejected ==
    (Validated /\ HasForeignCharacter(TestPayload)) =>
        /\ testResponse = [status |-> 200, body |-> "FAIL"]
        /\ ~validation.isValid
        /\ Reported("Invalid base64 characters found")

\* C28: every check that fails is reported with its own error: too many pad
\* characters, a length that is not a multiple of 4, a text that is not of the
\* base64 shape, an estimated size below the minimum.
EveryFailedCheckReported ==
    Validated =>
        LET cleaned == SelectSeq(TestPayload, IsCleanChar)
            pads == Cardinality({i \in 1..Len(cleaned) : cleaned[i] = "="})
        IN  /\ pads > 2 <=> Reported("Invalid base64 padding - too many = characters")
            /\ Len(cleaned) % 4 # 0 <=> Reported("Invalid base64 length - not multiple of 4")
            /\ ~IsBase64Shape(cleaned) <=> Reported("Invalid base64 characters found")
            /\ (Len(cleaned) * 3) \div 4 - pads < MinDecodedSize
                   <=> Reported("Estimated file size too small")

----------------------------------------------------------------------------
(* C29 *)

\* floor(len * 3 / 4) - padCount over s without its whitespace
EstimateOf(s) ==
    LET IsText(c) == c \notin Whitespace
        stripped == SelectSeq(s, IsText)
    IN  (Len(stripped) * 3) \div 4
            - Cardinality({i \in 1..Len(stripped) : stripped[i] = "="})

\* C29: for a payload of base64 characters, '=' and whitespace the estimated
\* size of the verdict is floor(len * 3 / 4) - padCount over the payload
\* without its whitespace; the size error is reported exactly when the
\* estimate is below 1000, so an estimate of 1000 passes and one of 999 fails.
SizeEstimatedAndCompared ==
    Validated =>
        /\ ~HasForeignCharacter(TestPayload) =>
               validation.metadata.estimatedFileSize = EstimateOf(TestPayload)
        /\ validation.metadata.estimatedFileSize >= MinDecodedSize
               <=> ~Reported("Estimated file size too small")

\* a payload that holds a line feed and whose estimate is exactly 1000 was
\* found valid
SizeEstimatedAndComparedWitness ==
    /\ Validated
    /\ \E i \in 1..Len(TestPayload) : TestPayload[i] = LF
    /\ EstimateOf(TestPayload) = MinDecodedSize
    /\ validation.isValid

\* C29 for the validation of the delivery job: a job that opened a connection
\* passed the size check, so the estimate floor(len * 3 / 4) - padCount of its
\* payload is at least 1000.
JobSizeCheckFollowsEstimate ==
    opened > 0 => EstimateOf(PdfBase64Of(request)) >= MinDecodedSize

----------------------------------------------------------------------------
(* C30 *)

\* the decoded text begins with '%PDF': base64 'JVBER' and a sixth character
\* of 'g'..'v' (of which the model's alphabet holds 'i', 'n', 'o')
HasPdfMagic(s) ==
    /\ Len(s) >= 6
    /\ SubSeq(s, 1, 5) = << "J", "V", "B", "E", "R" >>
    /\ s[6] \in {"i", "n", "o"}

\* s with its first characters replaced by those of an encoded '%PDF-'
WithPdfMagic(s) == << "J", "V", "B", "E", "R", "i" >> \o SubSeq(s, 7, Len(s))

\* C30: a payload found valid whose decoded text does not begin with '%PDF'
\* has the mismatch surfaced: its verdict differs from the verdict of the same
\* payload with the '%PDF' header.
HeaderMismatchSurfaced ==
    (Validated /\ validation.isValid /\ ~HasPdfMagic(TestPayload)) =>
        validation # ValidatePdfBase64(PdfPrefix \o WithPdfMagic(TestPayload))

\* the other half of C30: an accepted payload without the '%PDF' header is
\* answered PASS
HeaderMismatchPasses ==
    (Validated /\ validation.isValid) => testResponse = [status |-> 200, body |-> "PASS"]

----------------------------------------------------------------------------
(* C31 *)

\* the bytes of all conn.write calls of one sendEmailContent call, in order
WrittenBytes == Merge(Flatten(written))

\* some chunk ends between the two code units of one character
SplitsAPair ==
    \E m \in 1..MaxChunks :
        /\ Slice(content, m * chunkSize - 1, m * chunkSize)
               = << [u |-> HighSurrogate, n |-> 1] >>
        /\ Slice(content, m * chunkSize, m * chunkSize + 1)
               = << [u |-> LowSurrogate, n |-> 1] >>

\* C31: for every message length (shorter than, equal to, a multiple of, or
\* not a multiple of the chunk size) the bytes written by sendEmailContent,
\* concatenated in write order, are the bytes of the message written by one
\* single write: nothing is dropped, duplicated, reordered or altered at a
\* chunk boundary.
ChunkedEqualsSingle ==
    sending = "returned" => WrittenBytes = Encode(content)

\* What does hold: the bytes are those of the single write unless a chunk
\* ends between the two code units of one character, and then they differ.
ChunkedEqualsSingleUnlessSplit ==
    sending = "returned" => (WrittenBytes = Encode(content) <=> ~SplitsAPair)

----------------------------------------------------------------------------
(* C32 *)

\* C32: readResponse never returns while part of the reply is still in
\* flight, whatever the split of the reply into reads: when it returns, the
\* connection holds no byte of this reply that the next call of
\* readResponse (the reply to the next command) would read first.
NoReplyBytesLeftInFlight ==
    rd = "returned" => incoming.bytes = << >>

\* What does hold: readResponse returns as soon as four characters of a last
\* line have arrived, and whatever it returns is a prefix of the reply.
ReturnsAPrefixOfTheReply ==
    (rd = "returned" /\ incoming.then # "flood")
        => \E r \in ReplyTexts : StartsWith(r, received) /\ r = received \o incoming.bytes

----------------------------------------------------------------------------
(* C33 *)

----------------------------------------------------------------------------
(* C34 *)

\* the bytes written between the reply to DATA and the read of the final
\* reply: the message and the terminator
DataStream == SentMessage \o wire[Len(Steps) + 2]

\* where a line that consists of a single '.' begins
EndOfDataMarks(m) ==
    {i \in 3..(Len(m) - 2) : m[i] = "." /\ IsCrlfAt(m, i - 2) /\ IsCrlfAt(m, i + 1)}

\* C34: the DATA stream written for one message holds the end-of-data
\* sequence CRLF '.' CRLF exactly once, as its last bytes: nothing taken from
\* the request makes a line that consists of a single '.' before the
\* terminator.
EndOfDataOnlyAtTheEnd ==
    (pc = "FINAL" /\ MessageWritten) =>
        EndOfDataMarks(DataStream) = {Len(DataStream) - 2}

\* What does hold: the stream ends with the terminator, and the lines of a
\* single '.' before it are those of the request's message text.
EndOfDataMarksAreTheNotes ==
    (pc = "FINAL" /\ MessageWritten) =>
        /\ (Len(DataStream) - 2) \in EndOfDataMarks(DataStream)
        /\ Cardinality(EndOfDataMarks(DataStream))
               = 1 + Cardinality(EndOfDataMarks(QPNewlines(request.message)))

----------------------------------------------------------------------------
(* C35 *)

\* the connections that were opened and not closed
OpenConnections == (1..opened) \ closedConns

\* C35: at every point of a delivery job at most one connection is open, and
\* when the job has ended (sent, validation failure, missing secret, all
\* attempts failed) none is open, whatever made the attempts fail.
NoConnectionLeft ==
    /\ Cardinality(OpenConnections) <= 1
    /\ outcome # "none" => OpenConnections = {}

\* the job ended as failed after three connections; the last attempt broke off
\* in the middle of the SMTP dialogue, after the greeting was accepted
NoConnectionLeftWitness ==
    /\ outcome = "failed" /\ opened = 3 /\ OpenConnections = {}
    /\ lastError = "transport_error"
    /\ Len(replies) >= 2 /\ StartsWith(replies[1], R220)

----------------------------------------------------------------------------
(* C36 *)

\* s is one line: its only CR and LF are the line break that ends it
IsOneLine(s) ==
    /\ Len(s) >= 2 /\ IsCrlfAt(s, Len(s) - 1)
    /\ \A i \in 1..(Len(s) - 2) : s[i] \notin {CR, LF}

\* the header fields buildMimeMessage writes before the first empty line
BuiltHeaderFields ==
    { "Message-ID: ", "Date: ", "From: ", "To: ", "Subject: ", "MIME-Version: 1.0",
      "Content-Type: multipart/mixed; boundary=",
      "X-Mailer: Metascholar Certificate System" }

\* where the lines of the header block of m begin
HeaderLineStarts(m) ==
    LET blank == SetMin({i \in 1..Len(m) : IsCrlfAt(m, i) /\ IsCrlfAt(m, i + 2)})
    IN  {i \in LineStarts(m) : i <= blank}

\* C36: no value of the request adds a line to the SMTP dialogue or to the
\* header block of the message: every command written is one line, and every
\* line of the header block is one of the header fields buildMimeMessage writes.
NoLineFromRequestData ==
    (pc = "FINAL" /\ MessageWritten) =>
        /\ \A k \in 1..Len(Steps) : IsOneLine(wire[k])
        /\ \A i \in HeaderLineStarts(SentMessage) : SentMessage[i] \in BuiltHeaderFields

\* What does hold: every command written, RCPT TO included, is one line, and
\* the header block has one line more than buildMimeMessage writes for each
\* line break of the subject.
OnlyTheSubjectAddsLines ==
    (pc = "FINAL" /\ MessageWritten) =>
        /\ \A k \in 1..Len(Steps) : IsOneLine(wire[k])
        /\ Cardinality(HeaderLineStarts(SentMessage))
               = Cardinality(BuiltHeaderFields)
                     + Cardinality({i \in 1..Len(request.subject) :
                                       IsCrlfAt(request.subject, i)})

----------------------------------------------------------------------------
(* C37 *)

\* the send request for recipient j has been answered with a 2xx response
Acknowledged(j) == responses[j] # NoResponse /\ ~InvokeError(responses[j])

\* C37: the stored status of a certificate is 'sent' only once the send
\* request for that certificate has been acknowledged: when a batch has
\* finished, the certificate of a recipient whose request failed is not
\* marked 'sent'.
SentOnlyWhenAcknowledged ==
    ui = "done" => \A j \in Recipients : dbStatus[j] = "sent" => Acknowledged(j)

\* What does hold: the certificate is marked 'sent' before its request is
\* made, and stays so whatever the request returns.
MarkedSentBeforeTheRequest ==
    \A j \in Recipients :
        (Happened([what |-> "request", of |-> j]) \/ responses[j] # NoResponse)
            => dbStatus[j] = "sent"

----------------------------------------------------------------------------
(* C38 *)

HexDigits == Digit \cup {"A", "B", "C", "D", "E", "F"}

\* the byte that two hexadecimal digits name; bytes below 0x80 are written as
\* the character they encode
ByteOf(h, l) ==
    CASE h = "3" /\ l = "D" -> "="
      [] h = "2" /\ l = "0" -> " "
      [] h = "3" /\ l = "C" -> "<"
      [] h = "C" /\ l = "2" -> "0xC2"
      [] h = "C" /\ l = "3" -> "0xC3"
      [] h = "A" /\ l = "9" -> "0xA9"
      [] h = "E" /\ l = "9" -> "0xE9"
      [] h = "D" /\ l = "8" -> "0xD8"
      [] h = "D" /\ l = "F" -> "0xDF"
      [] OTHER -> "0x??"

\* a quoted-printable decoder (RFC 2045, 6.7): '=' and two hexadecimal digits
\* are one byte, '=' at the end of a line joins the line to the next one, and
\* any other '=' is kept as it is
QPDecode(s) ==
    LET escapeAt(i) ==
            /\ i >= 1 /\ i + 2 <= Len(s) /\ s[i] = "="
            /\ \/ s[i + 1] \in HexDigits /\ s[i + 2] \in HexDigits
               \/ s[i + 1] = CR /\ s[i + 2] = LF
    IN  Flatten([i \in 1..Len(s) |->
                    IF escapeAt(i)
                    THEN (IF s[i + 1] = CR THEN << >> ELSE << ByteOf(s[i + 1], s[i + 2]) >>)
                    ELSE IF escapeAt(i - 1) \/ escapeAt(i - 2) THEN << >>
                    ELSE << s[i] >>])

\* the UTF-8 bytes of a text (the part is labelled charset=utf-8); the two
\* surrogates stand together for U+1F393, whose bytes are F0 9F 8E 93
Utf8(s) ==
    Flatten([i \in 1..Len(s) |->
                CASE s[i] = "U+00E9" -> << "0xC3", "0xA9" >>
                  [] s[i] = "U+00A9" -> << "0xC2", "0xA9" >>
                  [] s[i] = "U+D83C" -> << "0xF0", "0x9F" >>
                  [] s[i] = "U+DF93" -> << "0x8E", "0x93" >>
                  [] OTHER -> << s[i] >>])

\* C38: the quoted-printable encoding of the HTML part is lossless: a
\* quoted-printable decoder returns the bytes of the HTML text (with CRLF line
\* breaks), for texts with '=', with characters outside ASCII and with lines
\* longer than 75 characters.
QuotedPrintableRoundTrips ==
    (pc = "FINAL" /\ MessageWritten) =>
        QPDecode(EncodeQuotedPrintable(HtmlOf(request)))
            = Utf8(QPNewlines(HtmlOf(request)))

\* What does hold: the message text of the request, which is ASCII with '='
\* characters and a line longer than 75 characters, is returned by the
\* decoder as it was.
AsciiNoteRoundTrips ==
    (pc = "FINAL" /\ MessageWritten) =>
        /\ \E i \in 1..Len(request.message) : request.message[i] = "="
        /\ QPDecode(EncodeQuotedPrintable(request.message)) = QPNewlines(request.message)

----------------------------------------------------------------------------
(* C39 *)

\* the calls that carry the required fields
IngestCalls == {c \in Callers : /\ hookCalls[c].body.method = "POST"
                                /\ hookCalls[c].body.registration_id # ""}

RowsOf(id) == {r \in registrations : r.registration_id = id}

\* C39: ingestion is an upsert keyed by registration_id: for every
\* interleaving of calls that carry the same registration_id, once the calls
\* have returned exactly one row with that registration_id exists and every
\* such call has returned 200 with action 'created' or 'updated'.
UpsertSucceedsForEveryCall ==
    \A c \in IngestCalls :
        hookCalls[c].at = "returned" =>
            /\ hookCalls[c].response.status = 200
            /\ hookCalls[c].response.body \in {"created", "updated"}
            /\ Cardinality(RowsOf(hookCalls[c].body.registration_id)) = 1

\* What does hold: no two rows share a registration_id, a call that returned
\* leaves one row with its registration_id, and the only error a call gets is
\* that of an insert made after another call created the row.
OneRowPerRegistration ==
    /\ \A r, q \in registrations : r.registration_id = q.registration_id => r = q
    /\ \A c \in IngestCalls :
           hookCalls[c].at = "returned" =>
               /\ Cardinality(RowsOf(hookCalls[c].body.registration_id)) = 1
               /\ hookCalls[c].response.status # 200 =>
                      /\ hookCalls[c].response.body = "Failed to create registration"
                      /\ \E d \in IngestCalls \ {c} :
                             /\ hookCalls[d].body.registration_id
                                    = hookCalls[c].body.registration_id
                             /\ hookCalls[d].response.body = "created"

====
